---- MODULE Spec2Model ----
(***************************************************************************)
(* gh-load-issue: the image harvest (downloadImages), the content fetcher  *)
(* (downloadImage), the format sniffer (validateImageBytes), the reference *)
(* extractor (extractImagesFromMarkdown) and the rewriter                  *)
(* (replaceImageUrls), modelled from src/gh-load-issue.mjs.                *)
(*                                                                         *)
(* Strings are real strings: URLs, host names, reasons and file names are  *)
(* the values the program handles, and startsWith / includes are computed  *)
(* on their characters.  A text blob is the sequence of its image          *)
(* references (the only parts either regular expression can match), each   *)
(* a record of its syntax kind and its URL.  Byte buffers are sequences of *)
(* byte values.                                                            *)
(***************************************************************************)
EXTENDS Integers, Sequences, FiniteSets, TLC

(***************************************************************************)
(* Bounds of the model.                                                    *)
(***************************************************************************)
MaxRefs == 3
MaxSniffLen == 29
MaxParts == 2
MaxRunRefs == 2
MaxCalls == 3
\* comments of an issue handed to issueToMarkdown
MaxComments == 2

(***************************************************************************)
(* Program constants.                                                      *)
(***************************************************************************)
DefaultMaxRedirects == 5
MinBufferLength == 4
SniffWindow == 12
TextWindow == 100

(***************************************************************************)
(* String and byte helpers (String.prototype.startsWith / includes,        *)
(* Buffer.prototype.slice, trim, toLowerCase).                             *)
(***************************************************************************)
Min(a, b) == IF a < b THEN a ELSE b

StartsWith(s, p) == Len(s) >= Len(p) /\ SubSeq(s, 1, Len(p)) = p

Includes(s, p) ==
  \E i \in 1..(Len(s) - Len(p) + 1) : SubSeq(s, i, i + Len(p) - 1) = p

Slice(buffer, from, to) ==
  SubSeq(buffer, from + 1, Min(to, Len(buffer)))

IsWhiteSpace(b) == b \in {9, 10, 11, 12, 13, 32}

RECURSIVE TrimStart(_)
TrimStart(s) ==
  IF s # <<>> /\ IsWhiteSpace(Head(s)) THEN TrimStart(Tail(s)) ELSE s

RECURSIVE TrimEnd(_)
TrimEnd(s) ==
  IF s # <<>> /\ IsWhiteSpace(s[Len(s)])
  THEN TrimEnd(SubSeq(s, 1, Len(s) - 1))
  ELSE s

Trim(s) == TrimEnd(TrimStart(s))

ToLowerCase(s) ==
  [i \in 1..Len(s) |-> IF s[i] >= 65 /\ s[i] <= 90 THEN s[i] + 32 ELSE s[i]]

(***************************************************************************)
(* validateImageBytes: magic-byte sniffing, first matching rule wins.      *)
(* The text literals are the ASCII bytes of '<?xml', '<svg',               *)
(* '<!doctype html', '<html' and '404'.                                    *)
(***************************************************************************)
TxtXml == <<60, 63, 120, 109, 108>>
TxtSvg == <<60, 115, 118, 103>>
TxtDoctype == <<60, 33, 100, 111, 99, 116, 121, 112, 101, 32, 104, 116, 109, 108>>
TxtHtml == <<60, 104, 116, 109, 108>>
Txt404 == <<52, 48, 52>>
\* mutant: the RIFF form tag looked for is 'WAVE'
TxtWEBP_Wave == <<87, 65, 86, 69>>

TxtWEBP == <<87, 69, 66, 80>>

Verdict(v, t, r) == [valid |-> v, type |-> t, reason |-> r]

validateImageBytes(buffer) ==
  IF Len(buffer) < MinBufferLength
  THEN Verdict(FALSE, "null", "Buffer too small")
  ELSE
    LET bytes == Slice(buffer, 0, SniffWindow)
        textStart == ToLowerCase(Trim(Slice(buffer, 0, TextWindow)))
    IN
      IF bytes[1] = 137 /\ bytes[2] = 80 /\ bytes[3] = 78 /\ bytes[4] = 71
      THEN Verdict(TRUE, "png", "")
      ELSE IF bytes[1] = 255 /\ bytes[2] = 216 /\ bytes[3] = 255
      THEN Verdict(TRUE, "jpeg", "")
      ELSE IF bytes[1] = 71 /\ bytes[2] = 73 /\ bytes[3] = 70
      THEN Verdict(TRUE, "gif", "")
      ELSE IF /\ bytes[1] = 82 /\ bytes[2] = 73 /\ bytes[3] = 70 /\ bytes[4] = 70
              /\ Len(buffer) >= SniffWindow
              /\ Slice(buffer, 8, SniffWindow) = TxtWEBP
      THEN Verdict(TRUE, "webp", "")
      ELSE IF bytes[1] = 66 /\ bytes[2] = 77
      THEN Verdict(TRUE, "bmp", "")
      ELSE IF bytes[1] = 0 /\ bytes[2] = 0 /\ bytes[3] = 1 /\ bytes[4] = 0
      THEN Verdict(TRUE, "ico", "")
      ELSE IF StartsWith(textStart, TxtXml) \/ StartsWith(textStart, TxtSvg)
      THEN Verdict(TRUE, "svg", "")
      ELSE IF \/ Includes(textStart, TxtDoctype)
              \/ Includes(textStart, TxtHtml)
              \/ Includes(textStart, Txt404)
      THEN Verdict(FALSE, "html",
                   "Received HTML instead of image (likely 404 page)")
      ELSE Verdict(FALSE, "null", "Unknown file format")

(***************************************************************************)
(* getExtensionForType                                                     *)
(***************************************************************************)
\* mutant: the extension of a JPEG is spelled out
getExtensionForType_Jpeg(type) ==
  CASE type = "png" -> ".png"
    [] type = "jpeg" -> ".jpeg"
    [] type = "gif" -> ".gif"
    [] type = "webp" -> ".webp"
    [] type = "bmp" -> ".bmp"
    [] type = "ico" -> ".ico"
    [] type = "svg" -> ".svg"
    [] OTHER -> ".bin"

getExtensionForType(type) ==
  CASE type = "png" -> ".png"
    [] type = "jpeg" -> ".jpg"
    [] type = "gif" -> ".gif"
    [] type = "webp" -> ".webp"
    [] type = "bmp" -> ".bmp"
    [] type = "ico" -> ".ico"
    [] type = "svg" -> ".svg"
    [] OTHER -> ".bin"

(***************************************************************************)
(* URL and path helpers: the parts of new URL(), path.join and             *)
(* path.basename the program relies on.                                    *)
(***************************************************************************)
\* index of the first occurrence of p in s at or after from, 0 when none
FirstIndex(s, p, from) ==
  LET hits == {i \in from..(Len(s) - Len(p) + 1) : SubSeq(s, i, i + Len(p) - 1) = p}
  IN IF hits = {} THEN 0 ELSE CHOOSE i \in hits : \A j \in hits : i <= j

\* index of the last occurrence of p in s, 0 when none
LastIndex(s, p) ==
  LET hits == {i \in 1..(Len(s) - Len(p) + 1) : SubSeq(s, i, i + Len(p) - 1) = p}
  IN IF hits = {} THEN 0 ELSE CHOOSE i \in hits : \A j \in hits : i >= j

\* new URL(url).origin : scheme, '://' and authority
Origin(url) ==
  LET a == FirstIndex(url, "://", 1) + 3
      b == FirstIndex(url, "/", a)
  IN SubSeq(url, 1, IF b = 0 THEN Len(url) ELSE b - 1)

\* new URL(url).hostname
Hostname(url) ==
  LET o == Origin(url)
  IN SubSeq(o, FirstIndex(o, "://", 1) + 3, Len(o))

\* mutant: the whole directory path is taken for its base name
Basename_Whole(p) == p

\* path.basename(p): the part behind the last separator, trailing separators
\* set aside; empty for a path of separators only
Basename(p) ==
  LET ends == {i \in 1..Len(p) : SubSeq(p, i, i) # "/"}
      end == IF ends = {} THEN 0 ELSE CHOOSE i \in ends : \A j \in ends : i >= j
      slashes == {i \in 1..end : SubSeq(p, i, i) = "/"}
      start == IF slashes = {} THEN 0
               ELSE CHOOSE i \in slashes : \A j \in slashes : i >= j
  IN IF end = 0 THEN "" ELSE SubSeq(p, start + 1, end)

\* path.join(a, b): the non-empty arguments joined by a separator, then
\* normalised: empty and '.' segments dropped, '..' taking back the segment
\* before it, a trailing separator kept
PathJoin(a, b) ==
  LET joined == IF a = "" THEN b ELSE IF b = "" THEN a ELSE a \o "/" \o b
      isAbsolute == StartsWith(joined, "/")
      trailing == Len(joined) > 0 /\ SubSeq(joined, Len(joined), Len(joined)) = "/"
      RECURSIVE Split(_)
      Split(p) ==
        LET i == FirstIndex(p, "/", 1)
        IN IF p = "" THEN <<>>
           ELSE IF i = 0 THEN <<p>>
           ELSE <<(IF i = 1 THEN "" ELSE SubSeq(p, 1, i - 1))>>
                \o (IF i = Len(p) THEN <<>> ELSE Split(SubSeq(p, i + 1, Len(p))))
      RECURSIVE normalizeString(_, _)
      normalizeString(segs, res) ==
        IF segs = <<>> THEN res
        ELSE LET seg == Head(segs)
             IN IF seg = "" \/ seg = "." THEN normalizeString(Tail(segs), res)
                ELSE IF seg # ".." THEN normalizeString(Tail(segs), Append(res, seg))
                ELSE IF res # <<>> /\ res[Len(res)] # ".."
                  THEN normalizeString(Tail(segs), SubSeq(res, 1, Len(res) - 1))
                ELSE IF isAbsolute THEN normalizeString(Tail(segs), res)
                ELSE normalizeString(Tail(segs), Append(res, ".."))
      RECURSIVE Glue(_)
      Glue(segs) ==
        IF segs = <<>> THEN ""
        ELSE IF Len(segs) = 1 THEN segs[1]
        ELSE segs[1] \o "/" \o Glue(Tail(segs))
      path == Glue(normalizeString(Split(joined), <<>>))
  IN IF joined = "" THEN "."
     ELSE IF path = "" THEN (IF isAbsolute THEN "/" ELSE IF trailing THEN "./" ELSE ".")
     ELSE (IF isAbsolute THEN "/" ELSE "") \o path \o (IF trailing THEN "/" ELSE "")

(***************************************************************************)
(* Inputs of the model.                                                    *)
(***************************************************************************)
UrlGithub == "https://github.com/user-attachments/assets/1"
UrlThird == "https://example.com/pic.png"
UrlUserContent == "http://user-images.githubusercontent.com/7/pic.jpg?s=1"
UrlData == "data:image/png;base64,iVBORw0KGgo="
UrlRelative == "./docs/pic.png"

HttpUrls == {UrlGithub, UrlThird, UrlUserContent}
Urls == HttpUrls \cup {UrlData, UrlRelative}

\* Location headers a server may answer with: one relative, one absolute
LocRelative == "/moved/pic"
LocLookalike == "https://github.com.evil.example/pic"
Locations == {LocRelative, LocLookalike}

\* every URL occurs in markdown syntax, the GitHub one in an <img> tag as well
Refs ==
  [type : {"markdown"}, url : Urls] \cup [type : {"html"}, url : {UrlGithub}]

Tokens == {"", "ghp_secret"}
ImageDirs == {"out/issue-7-images"}
\* target directories a caller of the harvest may name: relative, absolute,
\* with a trailing separator, the working directory, the root, the parent
TargetDirs ==
  {"out/issue-7-images", "/tmp/x/issue-7-images", "out/imgs/", ".", "/", ".."}

\* response bodies: a PNG header, an HTML error page, a truncated JPEG
BodyPng == <<137, 80, 78, 71, 13, 10, 26, 10>>
BodyHtml == <<60, 33, 68, 79, 67, 84, 89, 80, 69, 32, 104, 116, 109, 108, 62>>
BodyShort == <<255, 216, 255>>
Bodies == {BodyPng, BodyHtml, BodyShort}

\* one body of every format the sniffer knows, and one of none
BodyJpeg == <<255, 216, 255, 224>>
BodyGif == <<71, 73, 70, 56, 57, 97>>
BodyWebp == <<82, 73, 70, 70, 0, 0, 0, 0, 87, 69, 66, 80>>
BodyBmp == <<66, 77, 0, 0>>
BodyIco == <<0, 0, 1, 0>>
BodySvg == <<60, 115, 118, 103, 62>>
BodyUnknown == <<97, 98, 99, 100>>
BodiesByFormat ==
  {BodyPng, BodyJpeg, BodyGif, BodyWebp, BodyBmp, BodyIco, BodySvg,
   BodyUnknown, BodyHtml}

StatusCodes == {302, 404}
StatusMessage(code) == IF code = 404 THEN "Not Found" ELSE "Found"

ErrReset == "read ECONNRESET"
ErrWrite == "EACCES: permission denied"
ErrMkdir == "EACCES: permission denied, mkdir"

\* all sequences over S of length at most n
RECURSIVE SeqsUpTo(_, _)
SeqsUpTo(S, n) ==
  IF n = 0 THEN {<<>>}
  ELSE LET shorter == SeqsUpTo(S, n - 1)
       IN shorter \cup {Append(s, x) : s \in {t \in shorter : Len(t) = n - 1}, x \in S}

Contents == SeqsUpTo(Refs, MaxRefs)

(***************************************************************************)
(* Buffers handed to validateImageBytes on its own: every prefix of every  *)
(* head followed by every tail, and texts behind a run of spaces that ends *)
(* at or about the 100th byte.                                             *)
(***************************************************************************)
SniffHeads ==
  { <<137, 80, 78, 71>>,                              \* PNG
    <<255, 216, 255, 224>>,                           \* JPEG
    <<71, 73, 70, 56>>,                               \* GIF8
    <<82, 73, 70, 70>>,                               \* RIFF
    <<66, 77, 87, 32>>,                               \* 'BMW '
    <<0, 0, 1, 0>>,                                   \* ICO
    <<32, 10, 60, 63, 88, 77, 76, 32>>,               \* ' \n<?XML '
    <<60, 83, 118, 103, 62>>,                         \* '<Svg>'
    <<60, 33, 68, 79, 67, 84, 89, 80, 69, 32, 104, 116, 109, 108, 62,
      60, 104, 116, 109, 108, 62>>,                   \* '<!DOCTYPE html><html>'
    <<69, 114, 114, 32, 52, 48, 52>>,                 \* 'Err 404'
    <<97, 98, 99, 100>> }                             \* 'abcd'

SniffTails ==
  { <<>>,
    <<0, 0, 0, 0, 87, 69, 66, 80>>,                   \* ....WEBP
    <<0, 0, 0, 0, 87, 65, 86, 69>>,                   \* ....WAVE
    <<32, 60, 72, 84, 77, 76, 62>> }                  \* ' <HTML>'

Spaces(n) == [i \in 1..n |-> 32]

SniffPadded ==
  { Spaces(n) \o h : n \in {95, 96, 97, 100},
                     h \in {<<60, 115, 118, 103, 62>>, <<52, 48, 52>>} }

SniffBuffers ==
  { SubSeq(h \o t, 1, Min(n, Len(h \o t))) :
      h \in SniffHeads, t \in SniffTails, n \in 0..MaxSniffLen }
    \cup SniffPadded

NoVerdict == [valid |-> FALSE, type |-> "", reason |-> ""]

\* the calls of extractImagesFromMarkdown made so far, each with its argument
\* and what it returned, are kept in log
NoDoc ==
  [parts |-> <<>>, text |-> "", imageMap |-> <<>>, images |-> <<>>,
   updatedContent |-> "", log |-> <<>>,
   issueData |-> [body |-> [kind |-> "null", value |-> ""], comments |-> <<>>],
   markdown |-> "", threw |-> ""]

\* a value handed over where a text is expected: a string, null or undefined
Str(s) == [kind |-> "string", value |-> s]
Null == [kind |-> "null", value |-> ""]
Undefined == [kind |-> "undefined", value |-> ""]

\* ToBoolean of such a value
Truthy(v) == v.kind = "string" /\ v.value # ""

(***************************************************************************)
(* extractImagesFromMarkdown: every markdown-syntax match in document      *)
(* order, then every <img> match in document order.                        *)
(***************************************************************************)
IsMarkdownRef(r) == r.type = "markdown"
IsHtmlRef(r) == r.type = "html"

extractImagesFromMarkdown(content) ==
  SelectSeq(content, IsMarkdownRef) \o SelectSeq(content, IsHtmlRef)

(***************************************************************************)
(* replaceImageUrls: for each mapping entry in insertion order, every      *)
(* reference carrying the entry's URL gets the entry's relativePath.       *)
(***************************************************************************)
\* mutant: only the markdown syntax is rewritten
ReplaceOne_MarkdownOnly(content, entry) ==
  [i \in 1..Len(content) |->
     IF content[i].url = entry.url /\ content[i].type = "markdown"
     THEN [content[i] EXCEPT !.url = entry.relativePath]
     ELSE content[i]]

ReplaceOne(content, entry) ==
  [i \in 1..Len(content) |->
     IF content[i].url = entry.url
     THEN [content[i] EXCEPT !.url = entry.relativePath]
     ELSE content[i]]

RECURSIVE replaceImageUrls(_, _)
replaceImageUrls(content, imageMap) ==
  IF imageMap = <<>> THEN content
  ELSE replaceImageUrls(ReplaceOne(content, Head(imageMap)), Tail(imageMap))

\* issueToMarkdown: the body is rewritten only under a non-empty mapping
issueToMarkdown(body, imageMap) ==
  IF Len(imageMap) > 0 THEN replaceImageUrls(body, imageMap) ELSE body

\* Map.prototype.has
MapHas(imageMap, url) == \E i \in 1..Len(imageMap) : imageMap[i].url = url

(***************************************************************************)
(* Texts as strings: the two regular expressions of                        *)
(* extractImagesFromMarkdown and the two of replaceImageUrls, matched      *)
(* character by character as RegExp.prototype.exec and                     *)
(* String.prototype.replace match them (leftmost match, greedy             *)
(* quantifiers), and the expansion of the replacement pattern.             *)
(***************************************************************************)
\* the string p stands in s at index i
At(s, i, p) ==
  i >= 1 /\ i + Len(p) - 1 <= Len(s) /\ SubSeq(s, i, i + Len(p) - 1) = p

\* the character of s at index i, the empty string outside of s
Ch(s, i) == IF i >= 1 /\ i <= Len(s) THEN SubSeq(s, i, i) ELSE ""

\* the class \s
IsSpace(c) == c \in {" ", "\n", "\t", "\r"}

Quotes == {"\"", "'"}

\* case folding of the flag i
LowerChar(c) ==
  CASE c = "A" -> "a" [] c = "B" -> "b" [] c = "C" -> "c" [] c = "D" -> "d"
    [] c = "E" -> "e" [] c = "F" -> "f" [] c = "G" -> "g" [] c = "H" -> "h"
    [] c = "I" -> "i" [] c = "J" -> "j" [] c = "K" -> "k" [] c = "L" -> "l"
    [] c = "M" -> "m" [] c = "N" -> "n" [] c = "O" -> "o" [] c = "P" -> "p"
    [] c = "Q" -> "q" [] c = "R" -> "r" [] c = "S" -> "s" [] c = "T" -> "t"
    [] c = "U" -> "u" [] c = "V" -> "v" [] c = "W" -> "w" [] c = "X" -> "x"
    [] c = "Y" -> "y" [] c = "Z" -> "z" [] OTHER -> c

RECURSIVE Lower(_)
Lower(s) ==
  IF Len(s) <= 1 THEN LowerChar(s)
  ELSE Lower(SubSeq(s, 1, Len(s) \div 2)) \o Lower(SubSeq(s, Len(s) \div 2 + 1, Len(s)))

\* the first index at or after i whose character is one of stops, Len(s) + 1
\* when there is none
FirstOf(s, i, stops) ==
  LET hits == {j \in i..Len(s) : SubSeq(s, j, j) \in stops}
  IN IF hits = {} THEN Len(s) + 1 ELSE CHOOSE j \in hits : \A k \in hits : j <= k

\* the first index at or after i whose character is not white space
SkipSpaces(s, i) ==
  LET hits == {j \in i..(Len(s) + 1) : ~IsSpace(Ch(s, j))}
  IN CHOOSE j \in hits : \A k \in hits : j <= k

\* (?:\s+"[^"]*")?\)  from index e on: the index of the ')' , 0 for no match
TitleEnd(s, e) ==
  IF Ch(s, e) = ")" THEN e
  ELSE LET w == SkipSpaces(s, e)
           q == FirstOf(s, w + 1, {"\""})
       IN IF w > e /\ Ch(s, w) = "\"" /\ q <= Len(s) /\ Ch(s, q + 1) = ")"
          THEN q + 1 ELSE 0

NoMatch == [end |-> 0, url |-> "", g1 |-> "", g2 |-> ""]

\* !\[([^\]]*)\]\(([^)\s]+)(?:\s+"[^"]*")?\)  tried at index i
markdownImageRegex(s, i) ==
  LET j == FirstOf(s, i + 2, {"]"})
      u0 == j + 2
      u1 == FirstOf(s, u0, {")", " ", "\n", "\t", "\r"})
  IN IF At(s, i, "![") /\ j <= Len(s) /\ Ch(s, j + 1) = "(" /\ u1 > u0
          /\ TitleEnd(s, u1) > 0
     THEN [end |-> TitleEnd(s, u1), url |-> SubSeq(s, u0, u1 - 1),
           g1 |-> "", g2 |-> ""]
     ELSE NoMatch

\* the places of 'src=' that [^>]+ can reach from the '<img' at index i
SrcPlaces(s, sl, i) ==
  {k \in (i + 5)..Len(s) :
     /\ At(sl, k, "src=")
     /\ Ch(s, k + 4) \in Quotes
     /\ \A m \in (i + 4)..(k - 1) : Ch(s, m) # ">"}

Last(S) == CHOOSE k \in S : \A j \in S : j <= k

\* <img[^>]+src=["']([^"']+)["'][^>]*\/?>  with the flag i, tried at index i;
\* sl is the text in lower case
htmlImageRegex(s, sl, i) ==
  LET places == {k \in SrcPlaces(s, sl, i) :
                   LET u1 == FirstOf(s, k + 5, Quotes)
                   IN u1 > k + 5 /\ u1 <= Len(s)
                        /\ FirstOf(s, u1 + 1, {">"}) <= Len(s)}
  IN IF At(sl, i, "<img") /\ places # {}
     THEN LET k == Last(places)
              u1 == FirstOf(s, k + 5, Quotes)
          IN [end |-> FirstOf(s, u1 + 1, {">"}), url |-> SubSeq(s, k + 5, u1 - 1),
              g1 |-> "", g2 |-> ""]
     ELSE NoMatch

\* the least element of a set of indices, 0 for the empty set
First(S) == IF S = {} THEN 0 ELSE CHOOSE k \in S : \A j \in S : k <= j

\* the loops of exec calls: each search starts where the last match ended
RECURSIVE ExecMarkdown(_, _)
ExecMarkdown(s, i) ==
  LET at == First({j \in i..Len(s) : markdownImageRegex(s, j).end > 0})
      m == markdownImageRegex(s, at)
  IN IF at = 0 THEN <<>>
     ELSE <<[type |-> "markdown", url |-> m.url]>> \o ExecMarkdown(s, m.end + 1)

RECURSIVE ExecHtml(_, _, _)
ExecHtml(s, sl, i) ==
  LET at == First({j \in i..Len(s) : htmlImageRegex(s, sl, j).end > 0})
      m == htmlImageRegex(s, sl, at)
  IN IF at = 0 THEN <<>>
     ELSE <<[type |-> "html", url |-> m.url]>> \o ExecHtml(s, sl, m.end + 1)

\* mutant: the <img> matches come first
ExtractFromText_HtmlFirst(text) ==
  IF text = "" THEN <<>>
  ELSE ExecHtml(text, Lower(text), 1) \o ExecMarkdown(text, 1)

\* extractImagesFromMarkdown on a string: the markdown matches, then the
\* <img> matches (the fields alt and original are left out)
ExtractFromText(text) ==
  IF text = "" THEN <<>>
  ELSE ExecMarkdown(text, 1) \o ExecHtml(text, Lower(text), 1)

\* (!\[[^\]]*\]\()<url>((?:\s+"[^"]*")?\))  tried at index i
markdownRegex(s, i, url) ==
  LET j == FirstOf(s, i + 2, {"]"})
      u0 == j + 2
      u1 == u0 + Len(url)
  IN IF At(s, i, "![") /\ j <= Len(s) /\ Ch(s, j + 1) = "(" /\ At(s, u0, url)
          /\ TitleEnd(s, u1) > 0
     THEN [end |-> TitleEnd(s, u1), url |-> url,
           g1 |-> SubSeq(s, i, u0 - 1), g2 |-> SubSeq(s, u1, TitleEnd(s, u1))]
     ELSE NoMatch

\* (<img[^>]+src=["'])<url>(["'])  with the flag i, tried at index i
htmlRegex(s, sl, i, url) ==
  LET places == {k \in SrcPlaces(s, sl, i) :
                   /\ At(sl, k + 5, Lower(url))
                   /\ Ch(s, k + 5 + Len(url)) \in Quotes}
  IN IF At(sl, i, "<img") /\ places # {}
     THEN LET k == Last(places)
          IN [end |-> k + 5 + Len(url), url |-> url,
              g1 |-> SubSeq(s, i, k + 4), g2 |-> Ch(s, k + 5 + Len(url))]
     ELSE NoMatch

\* the expansion of a replacement pattern for a match with two groups:
\* $$, $&, $`, $', $1 and $2 are replaced, any other text is copied
RECURSIVE GetSubstitution(_, _, _, _, _)
GetSubstitution(template, m, matched, before, after) ==
  LET at == First({j \in 1..Len(template) :
                     /\ Ch(template, j) = "$"
                     /\ Ch(template, j + 1) \in {"$", "&", "`", "'", "1", "2"}})
      c == Ch(template, at + 1)
  IN IF at = 0 THEN template
     ELSE SubSeq(template, 1, at - 1)
            \o (CASE c = "$" -> "$"
                  [] c = "&" -> matched
                  [] c = "`" -> before
                  [] c = "'" -> after
                  [] c = "1" -> m.g1
                  [] c = "2" -> m.g2)
            \o GetSubstitution(SubSeq(template, at + 2, Len(template)),
                               m, matched, before, after)

\* `$1${imageInfo.relativePath}$2`
Template(relativePath) == "$1" \o relativePath \o "$2"

Replacement(s, i, m, relativePath) ==
  GetSubstitution(Template(relativePath), m, SubSeq(s, i, m.end),
                  SubSeq(s, 1, i - 1), SubSeq(s, m.end + 1, Len(s)))

\* updatedContent.replace(markdownRegex, ...) with the flag g
RECURSIVE ReplaceMarkdown(_, _, _, _)
ReplaceMarkdown(s, i, url, relativePath) ==
  LET at == First({j \in i..Len(s) : markdownRegex(s, j, url).end > 0})
      m == markdownRegex(s, at, url)
  IN IF at = 0 THEN SubSeq(s, i, Len(s))
     ELSE SubSeq(s, i, at - 1)
            \o Replacement(s, at, m, relativePath)
            \o ReplaceMarkdown(s, m.end + 1, url, relativePath)

\* updatedContent.replace(htmlRegex, ...) with the flags g and i
RECURSIVE ReplaceHtml(_, _, _, _, _)
ReplaceHtml(s, sl, i, url, relativePath) ==
  LET at == First({j \in i..Len(s) : htmlRegex(s, sl, j, url).end > 0})
      m == htmlRegex(s, sl, at, url)
  IN IF at = 0 THEN SubSeq(s, i, Len(s))
     ELSE SubSeq(s, i, at - 1)
            \o Replacement(s, at, m, relativePath)
            \o ReplaceHtml(s, sl, m.end + 1, url, relativePath)

\* the body of the loop of replaceImageUrls
ReplaceEntry(text, entry) ==
  LET md == ReplaceMarkdown(text, 1, entry.url, entry.relativePath)
  IN ReplaceHtml(md, Lower(md), 1, entry.url, entry.relativePath)

\* replaceImageUrls on a string
RECURSIVE ReplaceInText(_, _)
ReplaceInText(text, entries) ==
  IF entries = <<>> THEN text
  ELSE ReplaceInText(ReplaceEntry(text, Head(entries)), Tail(entries))

(***************************************************************************)
(* Texts handed to the two functions on their own: at most MaxParts parts, *)
(* each a piece of text around a URL.  kind tells whether the URL stands   *)
(* in markdown image syntax, in the src attribute of an <img> tag, or in   *)
(* neither.                                                                *)
(***************************************************************************)
UrlA == "https://x/a.png"
UrlB == "https://y/b.gif"

Part(pre, url, post, kind) == [pre |-> pre, url |-> url, post |-> post, kind |-> kind]

Parts ==
  { Part("![a](", UrlA, ")", "markdown"),
    Part("![b c](", UrlA, " \"t 1\")", "markdown"),
    Part("<img src=\"", UrlA, "\">", "html"),
    Part("<IMG width=1 SRC='", UrlA, "' alt=\"z\"/>", "html"),
    Part("<img src=\"", "https://x/A.png", "\">", "html"),
    Part("[a](", UrlA, ")", "none"),
    Part(" see ", UrlA, " \n", "none"),
    Part("![c](", "https://x/a.png.bak", ")", "markdown"),
    Part("![d](", UrlB, ")", "markdown"),
    Part("<img alt='e' src='", UrlB, "'>", "html") }

PartText(p) == p.pre \o p.url \o p.post

RECURSIVE TextOfParts(_)
TextOfParts(parts) ==
  IF parts = <<>> THEN "" ELSE PartText(Head(parts)) \o TextOfParts(Tail(parts))

MapRecord(url, relativePath) == [url |-> url, relativePath |-> relativePath]

TextMaps ==
  { <<>>,
    <<MapRecord(UrlA, "dir/image-1.png")>>,
    <<MapRecord(UrlA, "dir/image-1.png"), MapRecord(UrlB, "dir/image-2.gif")>>,
    <<MapRecord(UrlB, "US$$/image-1.gif")>>,
    <<MapRecord(UrlA, "dir/image-1.png"), MapRecord("https://x/A.png", "dir/image-2.png")>> }

(***************************************************************************)
(* parseIssueUrl: the full form, searched anywhere in the identifier, then *)
(* the short form, anchored at both ends.                                  *)
(***************************************************************************)
Digits == {"0", "1", "2", "3", "4", "5", "6", "7", "8", "9"}

DigitValue(c) ==
  CASE c = "0" -> 0 [] c = "1" -> 1 [] c = "2" -> 2 [] c = "3" -> 3
    [] c = "4" -> 4 [] c = "5" -> 5 [] c = "6" -> 6 [] c = "7" -> 7
    [] c = "8" -> 8 [] c = "9" -> 9

\* parseInt(digits, 10)
RECURSIVE ParseInt(_)
ParseInt(s) ==
  IF s = "" THEN 0
  ELSE ParseInt(SubSeq(s, 1, Len(s) - 1)) * 10 + DigitValue(SubSeq(s, Len(s), Len(s)))

\* the first index at or after i whose character is not a digit
DigitsEnd(s, i) ==
  First({j \in i..(Len(s) + 1) : Ch(s, j) \notin Digits})

NotParsed == [ok |-> FALSE, owner |-> "", repo |-> "", issueNumber |-> 0]

Parsed(owner, repo, digits) ==
  [ok |-> TRUE, owner |-> owner, repo |-> repo, issueNumber |-> ParseInt(digits)]

\* /github\.com\/([^/]+)\/([^/]+)\/issues\/(\d+)/  tried at index i
FullUrlAt(url, i) ==
  LET o1 == i + 11
      o2 == FirstOf(url, o1, {"/"})
      r2 == FirstOf(url, o2 + 1, {"/"})
      d1 == r2 + 8
  IN IF /\ At(url, i, "github.com/")
        /\ o2 > o1 /\ o2 <= Len(url)
        /\ r2 > o2 + 1
        /\ At(url, r2, "/issues/")
        /\ DigitsEnd(url, d1) > d1
     THEN Parsed(SubSeq(url, o1, o2 - 1), SubSeq(url, o2 + 1, r2 - 1),
                 SubSeq(url, d1, DigitsEnd(url, d1) - 1))
     ELSE NotParsed

fullUrlMatch(url) ==
  LET at == First({i \in 1..Len(url) : FullUrlAt(url, i).ok})
  IN IF at = 0 THEN NotParsed ELSE FullUrlAt(url, at)

\* mutant: the short form does without the number
shortMatch_NoNumber(url) ==
  LET o2 == FirstOf(url, 1, {"/"})
  IN IF o2 > 1 /\ o2 < Len(url)
     THEN Parsed(SubSeq(url, 1, o2 - 1), SubSeq(url, o2 + 1, Len(url)), "")
     ELSE NotParsed

\* /^([^/]+)\/([^#]+)#(\d+)$/
shortMatch(url) ==
  LET o2 == FirstOf(url, 1, {"/"})
      h == FirstOf(url, o2 + 1, {"#"})
  IN IF /\ o2 > 1 /\ o2 <= Len(url)
        /\ h > o2 + 1 /\ h < Len(url)
        /\ DigitsEnd(url, h + 1) = Len(url) + 1
     THEN Parsed(SubSeq(url, 1, o2 - 1), SubSeq(url, o2 + 1, h - 1),
                 SubSeq(url, h + 1, Len(url)))
     ELSE NotParsed

parseIssueUrl(url) ==
  IF fullUrlMatch(url).ok THEN fullUrlMatch(url) ELSE shortMatch(url)

(***************************************************************************)
(* The callers of the harvest: main (the command line) and loadIssue (the  *)
(* library call), the latter in its two versions.                          *)
(***************************************************************************)
Entries == {"main", "loadIssue", "loadIssueOlder"}

IssueInputs ==
  { "https://github.com/o/r/issues/7",
    "o/r#7",
    "https://github.com/o/r/pull/7",
    "github.com/o/r/issues/",
    "o/r",
    "o#7",
    "" }

Formats == {"markdown", "json"}

\* process.cwd()
Cwd == "/work"

\* --output: not given, a directory, a markdown file, a JSON file, a file
\* of another extension
Outputs == {"", "out", "out/my-issue.md", "issue.json", "out/notes.txt"}

\* path.extname(p): from the last '.' of the base name on, empty when the
\* base name has none or starts with its only one
Extname(p) ==
  LET base == Basename(p)
      dots == {i \in 1..Len(base) : SubSeq(base, i, i) = "."}
      last == CHOOSE i \in dots : \A j \in dots : i >= j
  IN IF dots = {} \/ last = 1 \/ base = ".." THEN ""
     ELSE SubSeq(base, last, Len(base))

\* path.dirname(p): what stands before the last separator, '.' when there
\* is none
Dirname(p) ==
  LET ends == {i \in 1..Len(p) : SubSeq(p, i, i) # "/"}
      end == IF ends = {} THEN 0 ELSE CHOOSE i \in ends : \A j \in ends : i >= j
      slashes == {i \in 1..end : SubSeq(p, i, i) = "/"}
      k == CHOOSE i \in slashes : \A j \in slashes : i >= j
  IN IF slashes = {} THEN (IF StartsWith(p, "/") THEN "/" ELSE ".")
     ELSE IF k = 1 THEN "/"
     ELSE SubSeq(p, 1, k - 1)

\* path.basename(p, ext): the base name without the suffix ext
BasenameWithout(p, ext) ==
  LET base == Basename(p)
  IN IF /\ Len(base) > Len(ext)
        /\ SubSeq(base, Len(base) - Len(ext) + 1, Len(base)) = ext
     THEN SubSeq(base, 1, Len(base) - Len(ext))
     ELSE base

\* what stands on the disk before the run: nothing, the image directory
\* without a file, the image directory with a file in it
DiskBefore ==
  { [dirs |-> {}, files |-> {}],
    [dirs |-> {"out/issue-7-images"}, files |-> {}],
    [dirs |-> {"out/issue-7-images"}, files |-> {"out/issue-7-images/keep.txt"}] }

\* the bodies of the issue and of its comments, as the API returns them
RunContents == SeqsUpTo(Refs, MaxRunRefs)

\* const results = { downloaded: [], failed: [], skipped: [] }
EmptyResults == [downloaded |-> <<>>, failed |-> <<>>, skipped |-> <<>>]

\* let imageResults = null
NullResults == [isNull |-> TRUE, value |-> EmptyResults]

NoJson == [written |-> FALSE, images |-> NullResults]

\* what the issue was retrieved with: the Octokit client with its auth
\* option, or the gh command with the login it keeps
NoCredential == [via |-> "", auth |-> ""]

\* the token `gh auth token` prints for a login
GhStoredToken == "gho_login"

NoRun ==
  [entry |-> "", issueInput |-> "", downloadImages |-> FALSE, format |-> "",
   parsed |-> NotParsed, requests |-> 0, before |-> [dirs |-> {}, files |-> {}],
   harvested |-> FALSE, imageResults |-> NullResults, json |-> NoJson,
   exitCode |-> -1,
   flagToken |-> "", envToken |-> "", gh |-> "missing", useApi |-> FALSE,
   credential |-> NoCredential,
   output |-> "", outputDir |-> "", outputFilename |-> "", outputPath |-> "",
   outcomes |-> <<>>, returned |-> <<>>]

(***************************************************************************)
(* State.                                                                  *)
(*   content, token, imageDir  the arguments of downloadImages             *)
(*   images, imageIndex        the extracted references and the counter    *)
(*   imageMap                  the Map, as its entries in insertion order  *)
(*   results                   the report {downloaded, failed, skipped}    *)
(*   fetch                     the downloadImage call being awaited        *)
(*   fetchLog                  the imageIndex of every downloadImage call  *)
(*   files, dirs               the file system: written files, directories *)
(*   rendered                  the text produced by issueToMarkdown        *)
(*   error                     the error downloadImages threw, if any      *)
(*   pc                        the position of the caller                  *)
(*   sniff                     a validateImageBytes call made on its own:  *)
(*                             its buffer and the verdict it returned      *)
(*   doc                       a text as a string, with the parts it is    *)
(*                             made of, a mapping, and what                *)
(*                             extractImagesFromMarkdown and               *)
(*                             replaceImageUrls returned for it            *)
(*   run                       a run of the command line (main) or a call  *)
(*                             of loadIssue: its options, the parsed       *)
(*                             identifier, the requests made for the       *)
(*                             issue, the directories and files found at   *)
(*                             the start, the report kept in imageResults, *)
(*                             the images field of the JSON and the exit   *)
(*                             status                                      *)
(***************************************************************************)
VARIABLES content, token, imageDir, images, imageIndex, imageMap, results,
          fetch, fetchLog, files, dirs, rendered, error, pc, sniff, doc, run

vars == <<content, token, imageDir, images, imageIndex, imageMap, results,
          fetch, fetchLog, files, dirs, rendered, error, pc, sniff, doc, run>>

\* the state of the calls of the pure functions made on their own
pure == <<sniff, doc>>

\* what the harvest and the fetcher leave alone
outer == <<sniff, doc, run>>

inputs == <<content, token, imageDir>>
harvest == <<images, imageIndex, imageMap, results, fetchLog, files, dirs,
             rendered, error>>

(***************************************************************************)
(* downloadImage.  One record follows the promise returned to the caller   *)
(* through the chain of recursive calls:                                   *)
(*   url, maxRedirects  arguments of the innermost call                    *)
(*   requests           HTTP requests issued so far                        *)
(*   req                the innermost request: none, inflight, receiving   *)
(*   open               earlier requests whose response was never read and *)
(*                      whose 30 s timeout is still armed                  *)
(*   sent               host and Authorization header of the last request  *)
(*   outcome            idle, pending, resolved or rejected                *)
(*   buffer, reason     the value the promise settled with                 *)
(* A promise settles once: resolve and reject are ignored afterwards.      *)
(***************************************************************************)
NoRequest == [hostname |-> "", authorization |-> ""]

Idle ==
  [url |-> "", maxRedirects |-> 0, requests |-> 0, req |-> "none", open |-> 0,
   sent |-> NoRequest, outcome |-> "idle", buffer |-> <<>>, reason |-> ""]

Resolve(f, buffer) ==
  IF f.outcome = "pending"
  THEN [f EXCEPT !.outcome = "resolved", !.buffer = buffer]
  ELSE f

Reject(f, reason) ==
  IF f.outcome = "pending"
  THEN [f EXCEPT !.outcome = "rejected", !.reason = reason]
  ELSE f

\* the condition under which headers.Authorization is set
AttachesAuthorization(tok, hostname) ==
  /\ tok # ""
  /\ \/ Includes(hostname, "github.com")
     \/ Includes(hostname, "githubusercontent.com")
     \/ Includes(hostname, "github.githubassets.com")

RequestHeaders(tok, url) ==
  [hostname |-> Hostname(url),
   authorization |-> IF AttachesAuthorization(tok, Hostname(url))
                     THEN "Bearer " \o tok ELSE ""]

\* mutant: the budget test is off by one
BudgetSpent_OffByOne(maxRedirects) == maxRedirects < 0

\* the redirect budget is spent when maxRedirects <= 0
BudgetSpent(maxRedirects) == maxRedirects <= 0

\* the body of one downloadImage(url, token, maxRedirects) call
downloadImage(f, url, tok, maxRedirects) ==
  IF BudgetSpent(maxRedirects)
  THEN Reject([f EXCEPT !.url = url, !.maxRedirects = maxRedirects,
                        !.req = "none"],
              "Too many redirects")
  ELSE [f EXCEPT !.url = url, !.maxRedirects = maxRedirects,
                 !.requests = @ + 1, !.req = "inflight",
                 !.sent = RequestHeaders(tok, url)]

\* res.headers.location, resolved against the current URL when relative
RedirectUrl(location, url) ==
  IF StartsWith(location, "http") THEN location ELSE Origin(url) \o location

\* Events of a fetch are followed while the caller awaits it; a stand-alone
\* call (pc = "call") is followed after its promise has settled as well.
FetchLive ==
  \/ pc = "call"
  \/ pc = "fetching" /\ fetch.outcome = "pending"

\* 3xx with a Location header: the response is left unread, the call recurses
ResponseRedirect(location) ==
  /\ FetchLive /\ fetch.req = "inflight"
  /\ fetch' = downloadImage([fetch EXCEPT !.open = @ + 1],
                            RedirectUrl(location, fetch.url),
                            token, fetch.maxRedirects - 1)
  /\ UNCHANGED <<outer, inputs, harvest, pc>>

\* any other status than 200 (a 3xx without Location included)
ResponseStatus(code) ==
  /\ FetchLive /\ fetch.req = "inflight"
  /\ fetch' = Reject([fetch EXCEPT !.open = @ + 1, !.req = "none"],
                     "HTTP " \o ToString(code) \o ": " \o StatusMessage(code))
  /\ UNCHANGED <<outer, inputs, harvest, pc>>

\* status 200: the data, end and error listeners are installed
ResponseOk ==
  /\ FetchLive /\ fetch.req = "inflight"
  /\ fetch' = [fetch EXCEPT !.req = "receiving"]
  /\ UNCHANGED <<outer, inputs, harvest, pc>>

\* res 'end': the chunks are concatenated and the promise resolved
ResponseEnd(body) ==
  /\ FetchLive /\ fetch.req = "receiving"
  /\ fetch' = Resolve([fetch EXCEPT !.req = "none"], body)
  /\ UNCHANGED <<outer, inputs, harvest, pc>>

\* req 'error' or res 'error'
RequestError ==
  /\ FetchLive /\ fetch.req \in {"inflight", "receiving"}
  /\ fetch' = Reject([fetch EXCEPT !.req = "none"], ErrReset)
  /\ UNCHANGED <<outer, inputs, harvest, pc>>

\* the 30 s timeout of the innermost request: req.destroy(), then reject
RequestTimeout ==
  /\ FetchLive /\ fetch.req \in {"inflight", "receiving"}
  /\ fetch' = Reject([fetch EXCEPT !.req = "none"], "Request timeout")
  /\ UNCHANGED <<outer, inputs, harvest, pc>>

\* the timeout of a request whose response was left unread
StaleTimeout ==
  /\ FetchLive /\ fetch.open > 0
  /\ fetch' = Reject([fetch EXCEPT !.open = @ - 1], "Request timeout")
  /\ UNCHANGED <<outer, inputs, harvest, pc>>

(***************************************************************************)
(* downloadImages.                                                         *)
(***************************************************************************)
\* mutant: a skipped reference leaves no report entry
Skipped_Silent(url, reason) == results

Skipped(url, reason) ==
  [results EXCEPT !.skipped = Append(@, [url |-> url, reason |-> reason])]

\* mutant: a failure is put in front of the earlier ones
Failed_Prepended(url, reason) ==
  [results EXCEPT !.failed = <<[url |-> url, reason |-> reason]>> \o @]

Failed(url, reason) ==
  [results EXCEPT !.failed = Append(@, [url |-> url, reason |-> reason])]

\* the reference the loop body is working on
CurrentUrl == images[imageIndex].url

\* mutant: files are numbered by the count of downloads
Filename_BySuccessCount(index, type) ==
  "image-" \o ToString(Len(results.downloaded) + 1) \o getExtensionForType(type)

\* const filename = `image-${imageIndex}${ext}`
Filename(index, type) == "image-" \o ToString(index) \o getExtensionForType(type)

\* mutant: any earlier reference to the URL counts, downloaded or not
AlreadyProcessed_AnySeen(url) == \E k \in 1..imageIndex : images[k].url = url

\* the test that opens the loop body: imageMap.has(url)
AlreadyProcessed(url) == MapHas(imageMap, url)

IsDataUrl(url) == StartsWith(url, "data:")
\* mutant: the scheme test is left out
IsHttpUrl_Unchecked(url) == TRUE

IsHttpUrl(url) == StartsWith(url, "http://") \/ StartsWith(url, "https://")

\* images.length === 0: the empty mapping and report are returned at once
ReturnEmpty ==
  /\ pc = "start"
  /\ extractImagesFromMarkdown(content) = <<>>
  /\ images' = <<>>
  /\ pc' = "done"
  /\ UNCHANGED <<outer, inputs, imageIndex, imageMap, results, fetch, fetchLog,
                 files, dirs, rendered, error>>

\* await fs.ensureDir(imageDir)
EnsureDir ==
  /\ pc = "start"
  /\ extractImagesFromMarkdown(content) # <<>>
  /\ images' = extractImagesFromMarkdown(content)
  /\ dirs' = dirs \cup {imageDir}
  /\ pc' = "loop"
  /\ UNCHANGED <<outer, inputs, imageIndex, imageMap, results, fetch, fetchLog,
                 files, rendered, error>>

\* fs.ensureDir rejects: nothing catches it, downloadImages throws
EnsureDirThrows ==
  /\ pc = "start"
  /\ extractImagesFromMarkdown(content) # <<>>
  /\ images' = extractImagesFromMarkdown(content)
  /\ error' = ErrMkdir
  /\ pc' = "threw"
  /\ UNCHANGED <<outer, inputs, imageIndex, imageMap, results, fetch, fetchLog,
                 files, dirs, rendered>>

SkipDuplicate ==
  /\ pc = "loop" /\ imageIndex < Len(images)
  /\ LET url == images[imageIndex + 1].url
     IN /\ AlreadyProcessed(url)
        /\ results' = Skipped(url, "duplicate")
  /\ imageIndex' = imageIndex + 1
  /\ UNCHANGED <<outer, inputs, images, imageMap, fetch, fetchLog, files, dirs,
                 rendered, error, pc>>

SkipDataUrl ==
  /\ pc = "loop" /\ imageIndex < Len(images)
  /\ LET url == images[imageIndex + 1].url
     IN /\ ~AlreadyProcessed(url)
        /\ IsDataUrl(url)
        /\ results' = Skipped(url, "data URL")
  /\ imageIndex' = imageIndex + 1
  /\ UNCHANGED <<outer, inputs, images, imageMap, fetch, fetchLog, files, dirs,
                 rendered, error, pc>>

SkipNonHttp ==
  /\ pc = "loop" /\ imageIndex < Len(images)
  /\ LET url == images[imageIndex + 1].url
     IN /\ ~AlreadyProcessed(url)
        /\ ~IsDataUrl(url)
        /\ ~IsHttpUrl(url)
        /\ results' = Skipped(url, "non-HTTP URL")
  /\ imageIndex' = imageIndex + 1
  /\ UNCHANGED <<outer, inputs, images, imageMap, fetch, fetchLog, files, dirs,
                 rendered, error, pc>>

\* const buffer = await downloadImage(url, token)
StartFetch ==
  /\ pc = "loop" /\ imageIndex < Len(images)
  /\ LET url == images[imageIndex + 1].url
     IN /\ ~AlreadyProcessed(url)
        /\ ~IsDataUrl(url)
        /\ IsHttpUrl(url)
        /\ fetch' = downloadImage([Idle EXCEPT !.outcome = "pending"],
                                  url, token, DefaultMaxRedirects)
  /\ imageIndex' = imageIndex + 1
  /\ fetchLog' = Append(fetchLog, imageIndex + 1)
  /\ pc' = "fetching"
  /\ UNCHANGED <<outer, inputs, images, imageMap, results, files, dirs, rendered,
                 error>>

\* mutant: the await stands outside the try block
AwaitRejected_Uncaught ==
  /\ pc = "fetching" /\ fetch.outcome = "rejected"
  /\ error' = fetch.reason
  /\ fetch' = Idle
  /\ pc' = "threw"
  /\ UNCHANGED <<outer, inputs, images, imageIndex, imageMap, results, fetchLog,
                 files, dirs, rendered>>

\* the awaited promise rejected: the catch block records the failure
AwaitRejected ==
  /\ pc = "fetching" /\ fetch.outcome = "rejected"
  /\ results' = Failed(CurrentUrl, fetch.reason)
  /\ fetch' = Idle
  /\ pc' = "loop"
  /\ UNCHANGED <<outer, inputs, images, imageIndex, imageMap, fetchLog, files, dirs,
                 rendered, error>>

\* mutant: the rejected bytes are dropped without a report entry
AwaitInvalid_Unreported ==
  /\ pc = "fetching" /\ fetch.outcome = "resolved"
  /\ ~validateImageBytes(fetch.buffer).valid
  /\ fetch' = Idle
  /\ pc' = "loop"
  /\ UNCHANGED <<outer, inputs, harvest>>

\* the bytes arrived and the sniffer rejects them
AwaitInvalid ==
  /\ pc = "fetching" /\ fetch.outcome = "resolved"
  /\ ~validateImageBytes(fetch.buffer).valid
  /\ results' = Failed(CurrentUrl, validateImageBytes(fetch.buffer).reason)
  /\ fetch' = Idle
  /\ pc' = "loop"
  /\ UNCHANGED <<outer, inputs, images, imageIndex, imageMap, fetchLog, files, dirs,
                 rendered, error>>

\* mutant: the mapping entry is set before the file is written
AwaitValid_MapsEarly ==
  /\ pc = "fetching" /\ fetch.outcome = "resolved"
  /\ validateImageBytes(fetch.buffer).valid
  /\ imageMap' = Append(imageMap, [url |-> CurrentUrl])
  /\ pc' = "writing"
  /\ UNCHANGED <<outer, inputs, images, imageIndex, results, fetchLog, files, dirs,
                 rendered, error, fetch>>

\* the bytes arrived and are an image: await fs.writeFile(localPath, buffer)
AwaitValid ==
  /\ pc = "fetching" /\ fetch.outcome = "resolved"
  /\ validateImageBytes(fetch.buffer).valid
  /\ pc' = "writing"
  /\ UNCHANGED <<outer, inputs, harvest, fetch>>

\* the mapping entry and the report entry of a written file
MapEntry(url, index, buffer) ==
  LET type == validateImageBytes(buffer).type
      filename == Filename(index, type)
  IN [url |-> url,
      localPath |-> PathJoin(imageDir, filename),
      relativePath |-> PathJoin(Basename(imageDir), filename),
      type |-> type,
      size |-> Len(buffer)]

DownloadedEntry(url, index, buffer) ==
  LET type == validateImageBytes(buffer).type
  IN [url |-> url,
      localPath |-> PathJoin(imageDir, Filename(index, type)),
      type |-> type,
      size |-> Len(buffer)]

\* the file is written; imageMap.set and results.downloaded.push follow
WriteFile ==
  /\ pc = "writing"
  /\ files' = files \cup {MapEntry(CurrentUrl, imageIndex, fetch.buffer).localPath}
  /\ imageMap' = Append(imageMap, MapEntry(CurrentUrl, imageIndex, fetch.buffer))
  /\ results' = [results EXCEPT !.downloaded =
                   Append(@, DownloadedEntry(CurrentUrl, imageIndex, fetch.buffer))]
  /\ fetch' = Idle
  /\ pc' = "loop"
  /\ UNCHANGED <<outer, inputs, images, imageIndex, fetchLog, dirs, rendered, error>>

\* fs.writeFile rejects: the catch block records the failure
WriteFileThrows ==
  /\ pc = "writing"
  /\ results' = Failed(CurrentUrl, ErrWrite)
  /\ fetch' = Idle
  /\ pc' = "loop"
  /\ UNCHANGED <<outer, inputs, images, imageIndex, imageMap, fetchLog, files, dirs,
                 rendered, error>>

\* the loop is over: return { imageMap, results }
Return ==
  /\ pc = "loop" /\ imageIndex = Len(images)
  /\ pc' = "done"
  /\ UNCHANGED <<outer, inputs, harvest, fetch>>

\* the caller renders the text with the mapping it got back
Render ==
  /\ pc = "done"
  /\ rendered' = issueToMarkdown(content, imageMap)
  /\ pc' = "rendered"
  /\ UNCHANGED <<outer, inputs, images, imageIndex, imageMap, results, fetch,
                 fetchLog, files, dirs, error>>

(***************************************************************************)
(* Specifications.                                                         *)
(*   Spec       one harvest over every content of at most MaxRefs          *)
(*              references, followed by the rendering of the text          *)
(*   SpecFetch  one stand-alone downloadImage call, followed to the end    *)
(***************************************************************************)
InitHarvest ==
  /\ images = <<>> /\ imageIndex = 0 /\ imageMap = <<>>
  /\ results = EmptyResults
  /\ fetch = Idle /\ fetchLog = <<>>
  /\ files = {} /\ dirs = {}
  /\ rendered = <<>> /\ error = ""
  /\ sniff = [buffer |-> <<>>, verdict |-> NoVerdict]
  /\ doc = NoDoc
  /\ run = NoRun

Init ==
  /\ content \in Contents
  /\ token = "ghp_secret"
  /\ imageDir \in ImageDirs
  /\ InitHarvest
  /\ pc = "start"

\* What the servers answer.  A stand-alone call meets every answer; a harvest,
\* which multiplies them by the references, meets one of each kind.
AnswerLocations == IF pc = "call" THEN Locations ELSE {LocLookalike}
AnswerCodes == IF pc = "call" THEN StatusCodes ELSE {404}
AnswerBodies ==
  IF pc = "call" THEN Bodies
  ELSE IF Len(content) = 1 THEN BodiesByFormat
  ELSE {BodyPng, BodyHtml}

FetchEvent ==
  \/ \E location \in AnswerLocations : ResponseRedirect(location)
  \/ \E code \in AnswerCodes : ResponseStatus(code)
  \/ ResponseOk
  \/ \E body \in AnswerBodies : ResponseEnd(body)
  \/ RequestError
  \/ RequestTimeout
  \/ StaleTimeout

Next ==
  \/ ReturnEmpty
  \/ EnsureDir
  \/ EnsureDirThrows
  \/ SkipDuplicate
  \/ SkipDataUrl
  \/ SkipNonHttp
  \/ StartFetch
  \/ FetchEvent
  \/ AwaitRejected
  \/ AwaitInvalid
  \/ AwaitValid
  \/ WriteFile
  \/ WriteFileThrows
  \/ Return
  \/ Render

Spec == Init /\ [][Next]_vars

InitFetch ==
  /\ content = <<>>
  /\ token \in Tokens
  /\ imageDir \in ImageDirs
  /\ images = <<>> /\ imageIndex = 0 /\ imageMap = <<>>
  /\ results = EmptyResults
  /\ fetchLog = <<>>
  /\ files = {} /\ dirs = {}
  /\ rendered = <<>> /\ error = ""
  /\ sniff = [buffer |-> <<>>, verdict |-> NoVerdict]
  /\ doc = NoDoc
  /\ run = NoRun
  /\ \E url \in HttpUrls :
       fetch = downloadImage([Idle EXCEPT !.outcome = "pending"],
                             url, token, DefaultMaxRedirects)
  /\ pc = "call"

SpecFetch == InitFetch /\ [][FetchEvent]_vars

\* The scheduling of the event loop.
\* An awaited file-system call (ensureDir, writeFile) completes one way or
\* the other and the continuation of a settled await is run:
Resumes ==
  /\ \/ pc \in {"start", "writing"}
     \/ pc = "fetching" /\ fetch.outcome # "pending"
  /\ \E p \in {"loop", "writing", "done", "threw"} \ {pc} : pc' = p

\* the for loop takes up its next reference
Advances ==
  /\ pc = "loop" /\ imageIndex < Len(images)
  /\ imageIndex' = imageIndex + 1

\* A harvest or a stand-alone fetch under that scheduling: a request that
\* has had no response, error or end meets the timeout armed by
\* req.setTimeout.
InitLive == Init \/ InitFetch

SpecLive ==
  /\ InitLive /\ [][Next]_vars
  /\ WF_pc(Resumes) /\ WF_imageIndex(Advances) /\ WF_vars(Return)
  /\ WF_vars(RequestTimeout)

\* downloadImages(content, imageDir, token) over the target directories
InitDirs ==
  /\ content \in RunContents
  /\ token = "ghp_secret"
  /\ imageDir \in TargetDirs
  /\ InitHarvest
  /\ pc = "start"

SpecDirs == InitDirs /\ [][Next]_vars

\* validateImageBytes(buffer), called on its own
Validate ==
  /\ pc = "sniff"
  /\ sniff' = [sniff EXCEPT !.verdict = validateImageBytes(sniff.buffer)]
  /\ pc' = "sniffed"
  /\ UNCHANGED <<doc, run, inputs, harvest, fetch>>

InitSniff ==
  /\ content = <<>> /\ token = "" /\ imageDir \in ImageDirs
  /\ images = <<>> /\ imageIndex = 0 /\ imageMap = <<>>
  /\ results = EmptyResults
  /\ fetch = Idle /\ fetchLog = <<>>
  /\ files = {} /\ dirs = {}
  /\ rendered = <<>> /\ error = ""
  /\ \E b \in SniffBuffers : sniff = [buffer |-> b, verdict |-> NoVerdict]
  /\ doc = NoDoc
  /\ run = NoRun
  /\ pc = "sniff"

SpecSniff == InitSniff /\ [][Validate]_vars

\* extractImagesFromMarkdown(text), called on its own
Extract ==
  /\ pc = "text"
  /\ doc' = [doc EXCEPT !.images = ExtractFromText(doc.text)]
  /\ pc' = "extracted"
  /\ UNCHANGED <<sniff, run, inputs, harvest, fetch>>

\* replaceImageUrls(text, imageMap), called on its own
Replace ==
  /\ pc = "text"
  /\ doc' = [doc EXCEPT !.updatedContent = ReplaceInText(doc.text, doc.imageMap)]
  /\ pc' = "replaced"
  /\ UNCHANGED <<sniff, run, inputs, harvest, fetch>>

InitText ==
  /\ content = <<>> /\ token = "" /\ imageDir \in ImageDirs
  /\ images = <<>> /\ imageIndex = 0 /\ imageMap = <<>>
  /\ results = EmptyResults
  /\ fetch = Idle /\ fetchLog = <<>>
  /\ files = {} /\ dirs = {}
  /\ rendered = <<>> /\ error = ""
  /\ sniff = [buffer |-> <<>>, verdict |-> NoVerdict]
  /\ run = NoRun
  /\ \E parts \in SeqsUpTo(Parts, MaxParts), entries \in TextMaps :
       doc = [NoDoc EXCEPT !.parts = parts, !.text = TextOfParts(parts),
                           !.imageMap = entries]
  /\ pc = "text"

SpecText == InitText /\ [][Extract \/ Replace]_vars

\* the arguments of a series of extractImagesFromMarkdown calls
CallArgs ==
  { Null, Undefined, Str(""),
    Str("![a](https://x/a.png)"),
    Str("<img src=\"https://y/b.gif\"> ![a](https://x/a.png)"),
    Str("see https://x/a.png") }

\* mutant: the array images is shared by the calls
ExtractCall_SharedArray(arg) ==
  /\ pc = "calls" /\ Len(doc.log) < MaxCalls
  /\ LET found == doc.images
                     \o (IF ~Truthy(arg) THEN <<>> ELSE ExtractFromText(arg.value))
     IN doc' = [doc EXCEPT
                  !.images = found,
                  !.log = Append(@, [arg |-> arg, threw |-> FALSE, images |-> found])]
  /\ UNCHANGED <<sniff, run, inputs, harvest, fetch, pc>>

\* one more call extractImagesFromMarkdown(arg): const images = [], the
\* early return for a falsy argument, the two loops, return images
ExtractCall(arg) ==
  /\ pc = "calls" /\ Len(doc.log) < MaxCalls
  /\ LET found == IF ~Truthy(arg) THEN <<>> ELSE ExtractFromText(arg.value)
     IN doc' = [doc EXCEPT
                  !.images = found,
                  !.log = Append(@, [arg |-> arg, threw |-> FALSE, images |-> found])]
  /\ UNCHANGED <<sniff, run, inputs, harvest, fetch, pc>>

InitCalls ==
  /\ content = <<>> /\ token = "" /\ imageDir \in ImageDirs
  /\ InitHarvest
  /\ pc = "calls"

NextCalls == \E arg \in CallArgs : ExtractCall(arg)

SpecCalls == InitCalls /\ [][NextCalls]_vars

(***************************************************************************)
(* issueToMarkdown(issueData, imageMap), called on its own with the bodies *)
(* the API can deliver: a string or null.  The title and the metadata      *)
(* lines do not depend on the bodies and stand as IssueHeader.             *)
(***************************************************************************)
IssueBodies ==
  { Null, Str(""), Str("no image"),
    Str("![a](https://x/a.png)"),
    Str("<img src=\"https://y/b.gif\">") }

IssueHeader == "# T\n\n**Issue:** [#7](u)  \n\n---\n\n"

\* what V8 reports for null.replace(...)
ErrNullReplace == "Cannot read properties of null (reading 'replace')"

\* markdown += value: the string itself, or 'null' for null
ToJsString(v) == IF v.kind = "string" THEN v.value ELSE v.kind

\* replaceImageUrls(content, imageMap) on such a value: the first pass of the
\* loop calls updatedContent.replace
ReplaceInValue(v, entries) ==
  IF entries = <<>> THEN [threw |-> "", value |-> v]
  ELSE IF v.kind # "string" THEN [threw |-> ErrNullReplace, value |-> v]
  ELSE [threw |-> "", value |-> Str(ReplaceInText(v.value, entries))]

\* if (imageMap && imageMap.size > 0) text = replaceImageUrls(text, imageMap)
RewrittenBody(v, entries) ==
  IF Len(entries) > 0 THEN ReplaceInValue(v, entries)
  ELSE [threw |-> "", value |-> v]

\* a piece of the markdown text, or what was thrown while making it
Piece(text) == [threw |-> "", text |-> text]
Thrown(reason) == [threw |-> reason, text |-> ""]

\* markdown += the heading, the body and the rule of one comment
CommentPiece(acc, index, commentBody) ==
  IF commentBody.threw # "" THEN Thrown(commentBody.threw)
  ELSE Piece(acc.text \o "### Comment " \o ToString(index) \o " by [@u](h)\n\n"
               \o ToJsString(commentBody.value) \o "\n\n---\n\n")

\* comments.forEach((comment, index) => ...), from the comment at index on
RECURSIVE CommentsMarkdown(_, _, _, _)
CommentsMarkdown(comments, index, entries, acc) ==
  IF index > Len(comments) \/ acc.threw # "" THEN acc
  ELSE CommentsMarkdown(comments, index + 1, entries,
                        CommentPiece(acc, index,
                                     RewrittenBody(comments[index], entries)))

\* if (comments && comments.length > 0)
CommentsSection(comments, entries) ==
  IF Len(comments) = 0 THEN Piece("")
  ELSE CommentsMarkdown(comments, 1, entries,
                        Piece("---\n\n## Comments (" \o ToString(Len(comments))
                                \o ")\n\n"))

\* markdown += '## Description\n\n' + body + '\n\n'
DescriptionPiece(body) ==
  IF body.threw # "" THEN Thrown(body.threw)
  ELSE Piece("## Description\n\n" \o body.value.value \o "\n\n")

\* if (issue.body)
DescriptionSection(body, entries) ==
  IF Truthy(body) THEN DescriptionPiece(RewrittenBody(body, entries)) ELSE Piece("")

\* the statements of issueToMarkdown in their order: an exception ends it
Assemble(description, comments) ==
  IF description.threw # "" THEN [threw |-> description.threw, markdown |-> ""]
  ELSE IF comments.threw # "" THEN [threw |-> comments.threw, markdown |-> ""]
  ELSE [threw |-> "", markdown |-> IssueHeader \o description.text \o comments.text]

\* the whole of issueToMarkdown: what it throws, or else what it returns
IssueMarkdown(issueData, entries) ==
  Assemble(DescriptionSection(issueData.body, entries),
           CommentsSection(issueData.comments, entries))

\* the outcome of the call, as the caller sees it
Outcome(d, r) == [d EXCEPT !.markdown = r.markdown, !.threw = r.threw]

\* const markdown = issueToMarkdown(issueData, imageMap)
RenderIssue ==
  /\ pc = "issue"
  /\ doc' = Outcome(doc, IssueMarkdown(doc.issueData, doc.imageMap))
  /\ pc' = IF doc'.threw # "" THEN "threw" ELSE "markdown"
  /\ UNCHANGED <<sniff, run, inputs, harvest, fetch>>

InitRender ==
  /\ content = <<>> /\ token = "" /\ imageDir \in ImageDirs
  /\ images = <<>> /\ imageIndex = 0 /\ imageMap = <<>>
  /\ results = EmptyResults
  /\ fetch = Idle /\ fetchLog = <<>>
  /\ files = {} /\ dirs = {}
  /\ rendered = <<>> /\ error = ""
  /\ sniff = [buffer |-> <<>>, verdict |-> NoVerdict]
  /\ run = NoRun
  /\ \E body \in IssueBodies, comments \in SeqsUpTo(IssueBodies, MaxComments),
        entries \in TextMaps :
       doc = [NoDoc EXCEPT !.issueData = [body |-> body, comments |-> comments],
                           !.imageMap = entries]
  /\ pc = "issue"

SpecRender == InitRender /\ [][RenderIssue]_vars

(***************************************************************************)
(* main and loadIssue.                                                     *)
(***************************************************************************)
\* mutant: a report without entries is given as null
issueToJson_EmptyIsNull(imageResults) ==
  [written |-> TRUE,
   images |-> IF imageResults.isNull \/ imageResults.value = EmptyResults
              THEN NullResults ELSE imageResults]

\* issueToJson: images: imageResults || null
issueToJson(imageResults) ==
  [written |-> TRUE,
   images |-> IF imageResults.isNull THEN NullResults ELSE imageResults]

\* the files of a directory, as fs.readdir lists them
ReadDir(dir) == {f \in files : StartsWith(f, dir \o "/")}

Exit(code) == [run EXCEPT !.exitCode = code]

\* main: the identifier is missing or parseIssueUrl returns null: exit(1)
MainParse ==
  /\ pc = "main"
  /\ LET parsed == parseIssueUrl(run.issueInput)
     IN IF run.issueInput = "" \/ ~parsed.ok
        THEN run' = Exit(1) /\ pc' = "exited"
        ELSE run' = [run EXCEPT !.parsed = parsed] /\ pc' = "parsed"
  /\ UNCHANGED <<pure, inputs, harvest, fetch>>

\* loadIssue: parseIssueUrl returns null: throw new Error('Invalid issue URL')
LoadIssueParse ==
  /\ pc = "loadIssue"
  /\ LET parsed == parseIssueUrl(run.issueInput)
     IN IF ~parsed.ok
        THEN /\ error' = "Invalid issue URL: " \o run.issueInput
             /\ pc' = "rejected"
             /\ run' = run
        ELSE /\ run' = [run EXCEPT !.parsed = parsed]
             /\ pc' = "parsed"
             /\ error' = error
  /\ UNCHANGED <<pure, inputs, images, imageIndex, imageMap, results, fetchLog,
                 files, dirs, rendered, fetch>>

\* fetchIssue: the issue and its comments are requested from the API
FetchIssue ==
  /\ pc = "parsed"
  /\ \E body \in RunContents : content' = body
  /\ run' = [run EXCEPT !.requests = @ + 2]
  /\ pc' = "fetched"
  /\ UNCHANGED <<pure, token, imageDir, harvest, fetch>>

\* fetchIssue throws: main exits with status 1, loadIssue rejects
FetchIssueThrows ==
  /\ pc = "parsed"
  /\ IF run.entry = "main"
     THEN /\ run' = [Exit(1) EXCEPT !.requests = @ + 1]
          /\ pc' = "exited"
          /\ error' = error
     ELSE /\ run' = [run EXCEPT !.requests = @ + 1]
          /\ pc' = "rejected"
          /\ error' = "Not Found"
  /\ UNCHANGED <<pure, inputs, images, imageIndex, imageMap, results, fetchLog,
                 files, dirs, rendered, fetch>>

\* outputFilename: the base name of an output file, without the extension
\* .md or .json, or issue-<number>
OutputFilename(output, issueNumber) ==
  IF output # "" /\ Extname(output) \in {".md", ".json"}
  THEN BasenameWithout(output, Extname(output))
  ELSE IF output # "" /\ Extname(output) # "" THEN Basename(output)
  ELSE "issue-" \o ToString(issueNumber)

\* outputDir: the directory of an output file, the output itself when it
\* has no extension, process.cwd() without --output
OutputDir(output) ==
  IF output = "" THEN Cwd
  ELSE IF Extname(output) # "" THEN Dirname(output)
  ELSE output

\* main: the output paths are determined and the output directory is
\* ensured; with --download-images the image directory is named after the
\* output and the harvest is called
MainPaths ==
  /\ pc = "fetched" /\ run.entry = "main"
  /\ dirs' = dirs \cup {OutputDir(run.output)}
  /\ LET paths == [run EXCEPT
                     !.outputDir = OutputDir(run.output),
                     !.outputFilename =
                        OutputFilename(run.output, run.parsed.issueNumber)]
     IN IF run.downloadImages
        THEN /\ imageDir' = PathJoin(paths.outputDir,
                                     paths.outputFilename \o "-images")
             /\ run' = [paths EXCEPT !.harvested = TRUE]
             /\ pc' = "start"
        ELSE /\ imageDir' = imageDir
             /\ run' = paths
             /\ pc' = "output"
  /\ UNCHANGED <<pure, content, token, images, imageIndex, imageMap, results,
                 fetchLog, files, rendered, error, fetch>>

\* main: imageResults = results; an image directory without a download
\* and without a file is removed
MainCleanup ==
  /\ pc = "done" /\ run.entry = "main"
  /\ run' = [run EXCEPT !.imageResults = [isNull |-> FALSE, value |-> results]]
  /\ dirs' = IF /\ Len(results.downloaded) = 0
                /\ imageDir \in dirs
                /\ ReadDir(imageDir) = {}
             THEN dirs \ {imageDir} ELSE dirs
  /\ pc' = "output"
  /\ UNCHANGED <<pure, inputs, images, imageIndex, imageMap, results, fetchLog,
                 files, rendered, error, fetch>>

\* main: the issue is written as JSON or as markdown
MainOutput ==
  /\ pc = "output"
  /\ LET outputPath ==
           PathJoin(run.outputDir,
                    run.outputFilename \o (IF run.format = "json" THEN ".json" ELSE ".md"))
     IN /\ run' = [Exit(0) EXCEPT
                     !.outputPath = outputPath,
                     !.json = IF run.format = "json"
                              THEN issueToJson(run.imageResults) ELSE @]
        /\ files' = files \cup {outputPath}
        /\ rendered' = IF run.format = "json" THEN rendered
                       ELSE issueToMarkdown(content, imageMap)
  /\ pc' = "exited"
  /\ UNCHANGED <<pure, inputs, images, imageIndex, imageMap, results, fetchLog,
                 dirs, error, fetch>>

\* main().catch: an error thrown by the harvest ends the run with status 1
MainCatch ==
  /\ pc = "threw" /\ run.entry = "main"
  /\ run' = Exit(1)
  /\ pc' = "exited"
  /\ UNCHANGED <<pure, inputs, harvest, fetch>>

\* loadIssue: with downloadImages and imageDir the harvest is called.  In
\* the newer version the parameter downloadImages hides the function of
\* that name, and the call throws a TypeError; the older version calls
\* downloadImagesQuiet.
LoadIssueHarvest ==
  /\ pc = "fetched" /\ run.entry \in {"loadIssue", "loadIssueOlder"}
  /\ IF run.downloadImages /\ imageDir # ""
     THEN IF run.entry = "loadIssue"
          THEN /\ error' = "downloadImages is not a function"
               /\ pc' = "rejected"
               /\ run' = run
          ELSE /\ run' = [run EXCEPT !.harvested = TRUE]
               /\ pc' = "start"
               /\ error' = error
     ELSE /\ pc' = "returning"
          /\ run' = run
          /\ error' = error
  /\ UNCHANGED <<pure, inputs, images, imageIndex, imageMap, results, fetchLog,
                 files, dirs, rendered, fetch>>

\* loadIssue: imageResults = r.results; the markdown and the JSON are built
\* and returned
LoadIssueReturn ==
  /\ \/ pc = "returning"
     \/ pc = "done" /\ run.entry = "loadIssueOlder"
  /\ LET imageResults == IF pc = "done"
                         THEN [isNull |-> FALSE, value |-> results]
                         ELSE run.imageResults
     IN run' = [run EXCEPT !.imageResults = imageResults,
                           !.json = issueToJson(imageResults),
                           !.exitCode = 0]
  /\ rendered' = issueToMarkdown(content, imageMap)
  /\ pc' = "returned"
  /\ UNCHANGED <<pure, inputs, images, imageIndex, imageMap, results, fetchLog,
                 files, dirs, error, fetch>>

\* loadIssue: an error thrown by the harvest rejects the call
LoadIssueThrows ==
  /\ pc = "threw" /\ run.entry = "loadIssueOlder"
  /\ pc' = "rejected"
  /\ UNCHANGED <<outer, inputs, harvest, fetch>>

InitRun ==
  /\ content = <<>> /\ token = "ghp_secret"
  /\ images = <<>> /\ imageIndex = 0 /\ imageMap = <<>>
  /\ results = EmptyResults
  /\ fetch = Idle /\ fetchLog = <<>>
  /\ rendered = <<>> /\ error = ""
  /\ sniff = [buffer |-> <<>>, verdict |-> NoVerdict]
  /\ doc = NoDoc
  /\ \E entry \in Entries, issueInput \in IssueInputs, flag \in BOOLEAN,
        format \in Formats, before \in DiskBefore, output \in Outputs :
       /\ entry # "main" => format = "markdown"
       \* every output meets one identifier and an empty disk, the
       \* directory out meets them all
       /\ output # "out" =>
            entry = "main" /\ issueInput = "o/r#7" /\ before.dirs = {}
       /\ run = [NoRun EXCEPT !.entry = entry, !.issueInput = issueInput,
                              !.downloadImages = flag, !.format = format,
                              !.before = before, !.output = output]
       /\ dirs = before.dirs /\ files = before.files
       /\ pc = IF entry = "main" THEN "main" ELSE "loadIssue"
  /\ imageDir \in IF run.entry = "main" THEN {""} ELSE {""} \cup ImageDirs

NextRun ==
  \/ MainParse
  \/ LoadIssueParse
  \/ FetchIssue
  \/ FetchIssueThrows
  \/ MainPaths
  \/ MainCleanup
  \/ MainOutput
  \/ MainCatch
  \/ LoadIssueHarvest
  \/ LoadIssueReturn
  \/ LoadIssueThrows
  \/ ReturnEmpty
  \/ EnsureDir
  \/ EnsureDirThrows
  \/ SkipDuplicate
  \/ SkipDataUrl
  \/ SkipNonHttp
  \/ StartFetch
  \/ FetchEvent
  \/ AwaitRejected
  \/ AwaitInvalid
  \/ AwaitValid
  \/ WriteFile
  \/ WriteFileThrows
  \/ Return

SpecRun == InitRun /\ [][NextRun]_vars

(***************************************************************************)
(* The credentials of main: the option --token with the default            *)
(* process.env.GITHUB_TOKEN, the token of the gh command, and the choice   *)
(* fetchIssue makes.  The entry "main" is main of gh-load-issue.mjs, the   *)
(* entry "mainGh" the later main whose fetchIssue prefers the gh command.  *)
(***************************************************************************)
\* isGhAvailable: gh --version and gh auth status both succeed
isGhAvailable == run.gh = "authenticated"

\* getGhToken: null unless gh is installed and `gh auth token` succeeds
getGhToken == IF run.gh = "authenticated" THEN GhStoredToken ELSE ""

\* yargs: --token, with the default process.env.GITHUB_TOKEN
ParseArgv ==
  /\ pc = "argv"
  /\ token' = IF run.flagToken # "" THEN run.flagToken ELSE run.envToken
  /\ pc' = "token"
  /\ UNCHANGED <<outer, content, imageDir, harvest, fetch>>

\* main: without a token the one of the gh command is tried; the later main
\* does so only with --use-api
GhTokenFallback ==
  /\ pc = "token"
  /\ token' = IF (run.entry = "main" \/ run.useApi) /\ token = "" /\ getGhToken # ""
              THEN getGhToken ELSE token
  /\ pc' = "fetchIssue"
  /\ UNCHANGED <<outer, content, imageDir, harvest, fetch>>

\* fetchIssue: new Octokit({ auth: token }); the later fetchIssue takes the
\* gh command when it is available and --use-api is not given, then the
\* token, then the gh command, then Octokit without authentication
FetchIssueAuth ==
  /\ pc = "fetchIssue"
  /\ LET octokit == [via |-> "octokit", auth |-> token]
         ghCli == [via |-> "gh", auth |-> GhStoredToken]
     IN run' = [run EXCEPT !.credential =
                  IF run.entry = "main" THEN octokit
                  ELSE IF ~run.useApi /\ isGhAvailable THEN ghCli
                  ELSE IF token # "" THEN octokit
                  ELSE IF isGhAvailable THEN ghCli
                  ELSE [via |-> "octokit", auth |-> ""]]
  /\ pc' = "issue"
  /\ UNCHANGED <<pure, inputs, harvest, fetch>>

InitAuth ==
  /\ content = <<>> /\ token = "" /\ imageDir = ""
  /\ images = <<>> /\ imageIndex = 0 /\ imageMap = <<>>
  /\ results = EmptyResults
  /\ fetch = Idle /\ fetchLog = <<>>
  /\ files = {} /\ dirs = {}
  /\ rendered = <<>> /\ error = ""
  /\ sniff = [buffer |-> <<>>, verdict |-> NoVerdict]
  /\ doc = NoDoc
  /\ \E entry \in {"main", "mainGh"}, flagToken \in {"", "ghp_flag"},
        envToken \in {"", "ghp_env"}, useApi \in BOOLEAN,
        gh \in {"missing", "installed", "authenticated"} :
       /\ entry = "main" => ~useApi
       /\ run = [NoRun EXCEPT !.entry = entry, !.flagToken = flagToken,
                              !.envToken = envToken, !.useApi = useApi, !.gh = gh]
  /\ pc = "argv"

NextAuth == ParseArgv \/ GhTokenFallback \/ FetchIssueAuth

SpecAuth == InitAuth /\ [][NextAuth]_vars

(***************************************************************************)
(* The three texts of the harvest: downloadImages of gh-load-issue.mjs,    *)
(* the later downloadImages with its parameter quiet, and                  *)
(* downloadImagesQuiet.  Each is followed from its first line to its       *)
(* return for a content, an image directory and the outcome every          *)
(* reference meets when it is fetched: the promise of downloadImage        *)
(* resolved with a buffer or rejected with a reason, and fs.writeFile      *)
(* succeeding or not.  lines counts the messages written with log.         *)
(***************************************************************************)
Harvesters == {"downloadImages", "downloadImages quiet", "downloadImagesQuiet"}

FetchOutcomes ==
  { [kind |-> "resolved", buffer |-> BodyPng, reason |-> "", written |-> TRUE],
    [kind |-> "resolved", buffer |-> BodyPng, reason |-> "", written |-> FALSE],
    [kind |-> "resolved", buffer |-> BodyHtml, reason |-> "", written |-> TRUE],
    [kind |-> "rejected", buffer |-> <<>>, reason |-> "HTTP 404: Not Found",
     written |-> TRUE] }

\* the loop over the references, from the reference idx on
RECURSIVE HarvestLoop(_, _, _, _, _)
HarvestLoop(harvester, refs, outcomes, idx, acc) ==
  IF idx > Len(refs) THEN acc
  ELSE
    LET url == refs[idx].url
        o == outcomes[idx]
        v == validateImageBytes(o.buffer)
        logged == IF harvester = "downloadImages" THEN 1 ELSE 0
        skipped(reason) ==
          [acc EXCEPT !.results.skipped = Append(@, [url |-> url, reason |-> reason])]
        failed(reason) ==
          [acc EXCEPT !.results.failed = Append(@, [url |-> url, reason |-> reason]),
                      !.lines = @ + logged]
        after ==
          IF MapHas(acc.imageMap, url) THEN skipped("duplicate")
          ELSE IF IsDataUrl(url) THEN skipped("data URL")
          ELSE IF ~IsHttpUrl(url) THEN skipped("non-HTTP URL")
          ELSE IF o.kind = "rejected" THEN failed(o.reason)
          ELSE IF ~v.valid THEN failed(v.reason)
          ELSE IF ~o.written THEN failed(ErrWrite)
          ELSE [acc EXCEPT
                  !.files = @ \cup {MapEntry(url, idx, o.buffer).localPath},
                  !.imageMap = Append(@, MapEntry(url, idx, o.buffer)),
                  !.results.downloaded =
                     Append(@, DownloadedEntry(url, idx, o.buffer))]
    IN HarvestLoop(harvester, refs, outcomes, idx + 1, after)

\* mutant: the quiet harvests keep their failures to themselves
HarvestOf_QuietDropsFailures(harvester, text, outcomes) ==
  LET refs == extractImagesFromMarkdown(text)
      logged == IF harvester = "downloadImages" THEN 1 ELSE 0
      empty == [imageMap |-> <<>>, results |-> EmptyResults, files |-> {},
                dirs |-> {}, lines |-> 0]
      looped == HarvestLoop(harvester, refs, outcomes, 1,
                            [empty EXCEPT !.dirs = {imageDir}, !.lines = logged])
  IN IF refs = <<>> THEN empty
     ELSE [looped EXCEPT
             !.results.failed = IF harvester = "downloadImages" THEN @ ELSE <<>>,
             !.lines = @ + (IF Len(looped.results.downloaded) > 0 THEN logged ELSE 0)
                         + (IF Len(looped.results.failed) > 0 THEN logged ELSE 0)]

\* one harvest from the extraction to return { imageMap, results }
HarvestOf(harvester, text, outcomes) ==
  LET refs == extractImagesFromMarkdown(text)
      logged == IF harvester = "downloadImages" THEN 1 ELSE 0
      empty == [imageMap |-> <<>>, results |-> EmptyResults, files |-> {},
                dirs |-> {}, lines |-> 0]
      looped == HarvestLoop(harvester, refs, outcomes, 1,
                            [empty EXCEPT !.dirs = {imageDir}, !.lines = logged])
  IN IF refs = <<>> THEN empty
     ELSE [looped EXCEPT
             !.lines = @ + (IF Len(looped.results.downloaded) > 0 THEN logged ELSE 0)
                         + (IF Len(looped.results.failed) > 0 THEN logged ELSE 0)]

\* one of the three is called on an empty directory
CallHarvest(harvester) ==
  /\ pc = "harvests"
  /\ \A i \in 1..Len(run.returned) : run.returned[i].harvester # harvester
  /\ run' = [run EXCEPT !.returned =
                Append(@, [harvester |-> harvester,
                           value |-> HarvestOf(harvester, content, run.outcomes)])]
  /\ UNCHANGED <<pure, inputs, harvest, fetch, pc>>

InitHarvesters ==
  /\ content \in RunContents
  /\ token = "ghp_secret"
  /\ imageDir \in ImageDirs
  /\ images = <<>> /\ imageIndex = 0 /\ imageMap = <<>>
  /\ results = EmptyResults
  /\ fetch = Idle /\ fetchLog = <<>>
  /\ files = {} /\ dirs = {}
  /\ rendered = <<>> /\ error = ""
  /\ sniff = [buffer |-> <<>>, verdict |-> NoVerdict]
  /\ doc = NoDoc
  /\ \E outcomes \in [1..MaxRunRefs -> FetchOutcomes] :
       run = [NoRun EXCEPT !.outcomes = outcomes]
  /\ pc = "harvests"

NextHarvesters == \E harvester \in Harvesters : CallHarvest(harvester)

SpecHarvesters == InitHarvesters /\ [][NextHarvesters]_vars

(***************************************************************************)
(* Vocabulary of the properties.                                           *)
(***************************************************************************)
Range(seq) == {seq[i] : i \in 1..Len(seq)}

\* the harvest has returned to its caller
Returned == pc \in {"done", "rendered"}

\* the number of entries of a report bucket that carry the URL
EntriesFor(bucket, url) == Cardinality({i \in 1..Len(bucket) : bucket[i].url = url})

\* the number of references that carry the URL
ReferencesTo(url) == Cardinality({k \in 1..Len(images) : images[k].url = url})

\* the number of report buckets in which the URL appears
BucketsHolding(url) ==
  Cardinality({b \in {"downloaded", "failed", "skipped"} : EntriesFor(results[b], url) > 0})

\* the references on which downloadImage was called
Fetched == Range(fetchLog)

\* the number of downloadImage calls made for the URL
FetchesOf(url) == Cardinality({i \in 1..Len(fetchLog) : images[fetchLog[i]].url = url})

\* the awaited fetch has ended in a failure the loop body has yet to record
FetchFailure ==
  /\ pc = "fetching"
  /\ \/ fetch.outcome = "rejected"
     \/ fetch.outcome = "resolved" /\ ~validateImageBytes(fetch.buffer).valid

FetchFailureReason ==
  IF fetch.outcome = "rejected" THEN fetch.reason
  ELSE validateImageBytes(fetch.buffer).reason

\* C1: a failed fetch (HTTP status, too many redirects, timeout, network
\* error) or a sniffer rejection adds exactly one failed entry {url, reason}
\* for the reference and leaves the loop running: the harvest throws only
\* from ensureDir, before any fetch, and returns only after the last
\* reference.
C1_FailureRecordedHarvestGoesOn ==
  /\ [][FetchFailure =>
          /\ results'.failed =
               Append(results.failed,
                      [url |-> CurrentUrl, reason |-> FetchFailureReason])
          /\ results'.downloaded = results.downloaded
          /\ results'.skipped = results.skipped
          /\ imageMap' = imageMap
          /\ pc' = "loop"]_vars
  /\ [](pc = "threw" => fetchLog = <<>>)
  /\ [](Returned => imageIndex = Len(images))

C1_Witness ==
  /\ pc = "done"
  /\ Len(images) = 3
  /\ Len(results.failed) = 2
  /\ results.failed[1] = [url |-> images[1].url, reason |-> "Request timeout"]
  /\ results.failed[2].url = images[2].url
  /\ results.failed[2].reason = "Received HTML instead of image (likely 404 page)"
  /\ Len(results.downloaded) = 1
  /\ results.downloaded[1].url = images[3].url

\* C2: a URL referenced twice is fetched at most once, and its second
\* reference is recorded as skipped 'duplicate', whether the first one was
\* downloaded or failed.
C2_DuplicateNeverRefetched ==
  Returned =>
    \A i, j \in 1..Len(images) :
      (i < j /\ images[i].url = images[j].url /\ IsHttpUrl(images[i].url)) =>
        /\ j \notin Fetched
        /\ FetchesOf(images[i].url) <= 1
        /\ \E n \in 1..Len(results.skipped) :
             results.skipped[n] = [url |-> images[j].url, reason |-> "duplicate"]

\* C3 as stated: on return every discovered URL is in exactly one bucket.
C3_ExactlyOneBucket ==
  Returned => \A k \in 1..Len(images) : BucketsHolding(images[k].url) = 1

\* C3 as amended: on return every discovered URL is in at least one bucket
\* and has as many report entries as it has references, so that a URL
\* referenced once is in exactly one bucket, with one entry.
C3_EveryUrlReported ==
  Returned =>
    \A k \in 1..Len(images) :
      LET url == images[k].url IN
        /\ BucketsHolding(url) >= 1
        /\ EntriesFor(results.downloaded, url) + EntriesFor(results.failed, url)
             + EntriesFor(results.skipped, url) = ReferencesTo(url)
        /\ ReferencesTo(url) = 1 => BucketsHolding(url) = 1

C3_Witness ==
  /\ pc = "done"
  /\ Len(images) = 3
  /\ images[1].url = images[3].url
  /\ BucketsHolding(images[1].url) = 2
  /\ BucketsHolding(images[2].url) = 1
  /\ EntriesFor(results.failed, images[2].url) = 1

\* C4: at every point the keys of the mapping are the URLs of the
\* downloaded entries, each mapping record agrees with its report entry on
\* localPath, type and size, and a URL that is only failed or skipped has
\* no mapping entry.
C4_MappingMatchesDownloaded ==
  /\ {imageMap[i].url : i \in 1..Len(imageMap)}
       = {results.downloaded[i].url : i \in 1..Len(results.downloaded)}
  /\ Len(imageMap) = Len(results.downloaded)
  /\ \A i \in 1..Len(imageMap) : \A j \in 1..Len(results.downloaded) :
       imageMap[i].url = results.downloaded[j].url =>
         /\ imageMap[i].localPath = results.downloaded[j].localPath
         /\ imageMap[i].type = results.downloaded[j].type
         /\ imageMap[i].size = results.downloaded[j].size
  /\ \A k \in 1..Len(images) :
       EntriesFor(results.downloaded, images[k].url) = 0 =>
         ~MapHas(imageMap, images[k].url)

C4_Witness ==
  /\ pc = "done"
  /\ Len(imageMap) = 1
  /\ Len(results.failed) = 1
  /\ Len(results.skipped) = 1
  /\ imageMap[1].size = 8
  /\ imageMap[1].type = "png"

\* the allow-list of GitHub content hosts: github.com, the subdomains of
\* githubusercontent.com, github.githubassets.com
EndsWith(s, p) == Len(s) >= Len(p) /\ SubSeq(s, Len(s) - Len(p) + 1, Len(s)) = p

AllowListed(hostname) ==
  \/ hostname = "github.com"
  \/ EndsWith(hostname, ".githubusercontent.com")
  \/ hostname = "github.githubassets.com"

\* C5: every request, redirect hops included, carries the Authorization
\* header only if a token was supplied and its host is allow-listed.
C5_TokenOnlyToAllowListedHosts ==
  fetch.sent.authorization # "" =>
    token # "" /\ AllowListed(fetch.sent.hostname)

LastFetchOf(url) ==
  CHOOSE k \in Fetched :
    /\ images[k].url = url
    /\ \A j \in Fetched : images[j].url = url => j <= k

AllDistinct(seq) == \A i, j \in 1..Len(seq) : i # j => seq[i].url # seq[j].url

\* C7: the file of a downloaded reference is image-<k><ext> in the image
\* directory, k being the 1-based position of the reference among the
\* extracted references; skipped and failed references use up their
\* number, so that of three references of which the second fails the files
\* are image-1 and image-3.
C7_FileNumberedByPosition ==
  /\ \A i \in 1..Len(results.downloaded) :
       LET d == results.downloaded[i] IN
         /\ d.localPath = imageDir \o "/image-" \o ToString(LastFetchOf(d.url))
                            \o getExtensionForType(d.type)
         /\ d.localPath \in files
  /\ Cardinality(files) = Len(results.downloaded)
  /\ ( /\ Returned /\ Len(images) = 3 /\ AllDistinct(images)
       /\ EntriesFor(results.downloaded, images[1].url) = 1
       /\ EntriesFor(results.failed, images[2].url) = 1
       /\ EntriesFor(results.downloaded, images[3].url) = 1 ) =>
       files = {imageDir \o "/image-1.png", imageDir \o "/image-3.png"}

C7_Witness ==
  /\ pc = "done"
  /\ Len(images) = 3 /\ AllDistinct(images)
  /\ Len(results.failed) = 1
  /\ results.failed[1].url = images[2].url
  /\ files = {"out/issue-7-images/image-1.png", "out/issue-7-images/image-3.png"}

\* C8: a reference whose fetch ended in HTTP 404 has a failed entry naming
\* the status, its URL has no mapping entry, and the rendering leaves every
\* occurrence of the URL as it was.
C8_NotFoundLeavesUrlUntouched ==
  pc = "rendered" =>
    \A n \in 1..Len(results.failed) :
      StartsWith(results.failed[n].reason, "HTTP 404") =>
        /\ ~MapHas(imageMap, results.failed[n].url)
        /\ \A t \in 1..Len(content) :
             content[t].url = results.failed[n].url =>
               rendered[t].url = results.failed[n].url

\* the blob of C9: one URL, once in markdown syntax and once in an <img>
\* tag, fetched with PNG bytes and written
C9_Case ==
  /\ pc = "rendered"
  /\ Len(content) = 2
  /\ content[1].url = content[2].url
  /\ content[1].type # content[2].type
  /\ IsHttpUrl(content[1].url)
  /\ results.failed = <<>>

\* C9 as stated: one fetch, one mapping entry, both occurrences rewritten
\* to the same local path, one downloaded entry and no failed and no
\* skipped entry for the URL.
C9_OneDownloadNothingSkipped ==
  C9_Case =>
    /\ Len(fetchLog) = 1
    /\ Len(imageMap) = 1
    /\ rendered[1].url = imageMap[1].relativePath
    /\ rendered[2].url = imageMap[1].relativePath
    /\ EntriesFor(results.downloaded, content[1].url) = 1
    /\ EntriesFor(results.failed, content[1].url) = 0
    /\ EntriesFor(results.skipped, content[1].url) = 0

\* C9 as amended: one fetch, one mapping entry, both occurrences rewritten
\* to the same local path, one downloaded entry, no failed entry, and one
\* skipped entry, with reason 'duplicate', for the second reference.
C9_OneDownloadOneDuplicate ==
  C9_Case =>
    /\ Len(fetchLog) = 1
    /\ Len(imageMap) = 1
    /\ imageMap[1].relativePath = "issue-7-images/image-1.png"
    /\ rendered[1].url = imageMap[1].relativePath
    /\ rendered[2].url = imageMap[1].relativePath
    /\ rendered[1].type = content[1].type
    /\ rendered[2].type = content[2].type
    /\ EntriesFor(results.downloaded, content[1].url) = 1
    /\ EntriesFor(results.failed, content[1].url) = 0
    /\ results.skipped = <<[url |-> content[1].url, reason |-> "duplicate"]>>

C9_Witness ==
  /\ C9_Case
  /\ content[1].type = "markdown"
  /\ content[2].type = "html"
  /\ rendered[2].url = "issue-7-images/image-1.png"

\* the number of skipped entries equal to {url, reason}
SkippedAs(url, reason) ==
  Cardinality({n \in 1..Len(results.skipped) :
                 results.skipped[n] = [url |-> url, reason |-> reason]})

\* the number of references processed so far that carry the URL
ProcessedRefs(url) ==
  Cardinality({k \in 1..imageIndex : images[k].url = url})

\* C10: every reference to a 'data:' URL is recorded as skipped 'data URL'
\* and every reference to a URL that starts with neither 'http://' nor
\* 'https://' as skipped 'non-HTTP URL'; downloadImage is not called on
\* them, and recording a reference as skipped starts no request and writes
\* no file.
C10_SkippedWithoutRequestOrFile ==
  /\ [](\A k \in 1..imageIndex :
          LET url == images[k].url IN
            /\ StartsWith(url, "data:") =>
                 /\ SkippedAs(url, "data URL") = ProcessedRefs(url)
                 /\ k \notin Fetched
            /\ ( /\ ~StartsWith(url, "data:")
                 /\ ~StartsWith(url, "http://")
                 /\ ~StartsWith(url, "https://") ) =>
                 /\ SkippedAs(url, "non-HTTP URL") = ProcessedRefs(url)
                 /\ k \notin Fetched)
  /\ [](\A f \in files :
          \E k \in Fetched :
            StartsWith(f, imageDir \o "/image-" \o ToString(k) \o "."))
  /\ [][Len(results'.skipped) > Len(results.skipped) =>
          /\ fetchLog' = fetchLog
          /\ fetch' = fetch
          /\ files' = files]_vars

C10_Witness ==
  /\ pc = "done"
  /\ Len(images) = 3
  /\ SkippedAs(UrlData, "data URL") = 1
  /\ SkippedAs(UrlRelative, "non-HTTP URL") = 1
  /\ fetchLog = <<3>>
  /\ Cardinality(files) = 1

Buckets == {"downloaded", "failed", "skipped"}

\* the URLs of the entries of a sequence of records
UrlsOf(seq) == [i \in 1..Len(seq) |-> seq[i].url]

\* the references, in order, that a labelling sends to the bucket
RECURSIVE Labelled(_, _, _)
Labelled(g, b, n) ==
  IF n = 0 THEN <<>>
  ELSE IF g[n] = b THEN Append(Labelled(g, b, n - 1), images[n].url)
  ELSE Labelled(g, b, n - 1)

\* the references whose outcome has been recorded
Recorded == IF pc \in {"fetching", "writing"} THEN imageIndex - 1 ELSE imageIndex

\* C11: at every point the references recorded so far can be labelled with
\* one bucket each so that every bucket holds exactly the entries of its
\* references in the order of the extracted reference sequence; a step
\* only ever appends to a bucket, whatever the fetches answered and
\* whenever they completed.
C11_BucketsKeepReferenceOrder ==
  /\ [](\E g \in [1..Recorded -> Buckets] :
          \A b \in Buckets : UrlsOf(results[b]) = Labelled(g, b, Recorded))
  /\ [][\A b \in Buckets :
          \/ results'[b] = results[b]
          \/ /\ Len(results'[b]) = Len(results[b]) + 1
             /\ SubSeq(results'[b], 1, Len(results[b])) = results[b]
             /\ results'[b][Len(results'[b])].url = images'[imageIndex'].url]_vars

C11_Witness ==
  /\ pc = "done"
  /\ Len(images) = 3 /\ AllDistinct(images)
  /\ UrlsOf(results.failed) = <<images[1].url, images[3].url>>
  /\ results.failed[1].reason = "Request timeout"
  /\ results.failed[2].reason = "HTTP 404: Not Found"
  /\ UrlsOf(results.downloaded) = <<images[2].url>>

\* the buffer carries the bytes sig from the given offset on
BytesAt(b, offset, sig) ==
  Len(b) >= offset + Len(sig) /\ SubSeq(b, offset + 1, offset + Len(sig)) = sig

\* the text of the first 100 bytes, trimmed and lowercased
TextOf(b) == ToLowerCase(Trim(SubSeq(b, 1, Min(100, Len(b)))))

\* the rules of C12 in their order, each with the verdict it gives; the
\* two quoted reasons are parameters
C12_Rules(b, tooSmall, unknown) ==
  << <<Len(b) < 4, [valid |-> FALSE, type |-> "null", reason |-> tooSmall]>>,
     <<BytesAt(b, 0, <<137, 80, 78, 71>>), [valid |-> TRUE, type |-> "png", reason |-> ""]>>,
     <<BytesAt(b, 0, <<255, 216, 255>>), [valid |-> TRUE, type |-> "jpeg", reason |-> ""]>>,
     <<BytesAt(b, 0, <<71, 73, 70>>), [valid |-> TRUE, type |-> "gif", reason |-> ""]>>,
     <<BytesAt(b, 0, <<82, 73, 70, 70>>) /\ BytesAt(b, 8, <<87, 69, 66, 80>>),
       [valid |-> TRUE, type |-> "webp", reason |-> ""]>>,
     <<BytesAt(b, 0, <<66, 77>>), [valid |-> TRUE, type |-> "bmp", reason |-> ""]>>,
     <<BytesAt(b, 0, <<0, 0, 1, 0>>), [valid |-> TRUE, type |-> "ico", reason |-> ""]>>,
     <<BytesAt(TextOf(b), 0, <<60, 63, 120, 109, 108>>)
         \/ BytesAt(TextOf(b), 0, <<60, 115, 118, 103>>),
       [valid |-> TRUE, type |-> "svg", reason |-> ""]>>,
     <<\E i \in 0..Len(TextOf(b)) :
          \/ BytesAt(TextOf(b), i, <<60, 33, 100, 111, 99, 116, 121, 112, 101, 32,
                                     104, 116, 109, 108>>)
          \/ BytesAt(TextOf(b), i, <<60, 104, 116, 109, 108>>)
          \/ BytesAt(TextOf(b), i, <<52, 48, 52>>),
       [valid |-> FALSE, type |-> "html",
        reason |-> "Received HTML instead of image (likely 404 page)"]>>,
     <<TRUE, [valid |-> FALSE, type |-> "null", reason |-> unknown]>> >>

\* the verdict of the first rule that matches
C12_FirstMatch(rules) ==
  rules[CHOOSE i \in 1..Len(rules) :
          rules[i][1] /\ \A j \in 1..(i - 1) : ~rules[j][1]][2]

C12_Sniffed == pc = "sniffed"

C13_Table ==
  [tag \in {"png", "jpeg", "gif", "webp", "bmp", "ico", "svg"} |->
     CASE tag = "png" -> ".png"
       [] tag = "jpeg" -> ".jpg"
       [] tag = "gif" -> ".gif"
       [] tag = "webp" -> ".webp"
       [] tag = "bmp" -> ".bmp"
       [] tag = "ico" -> ".ico"
       [] tag = "svg" -> ".svg"]

\* C13: a file is written under the name image-<k> followed by the
\* extension the table gives for the format sniffed from the bytes,
\* whatever the URL ends with; the format of every written file is in the
\* table and no file name ends in .bin.
C13_ExtensionFromSniffedFormat ==
  /\ [][files' # files =>
          /\ validateImageBytes(fetch.buffer).type \in DOMAIN C13_Table
          /\ files' = files \cup
               {imageDir \o "/image-" \o ToString(imageIndex)
                  \o C13_Table[validateImageBytes(fetch.buffer).type]}]_vars
  /\ [](\A f \in files : ~EndsWith(f, ".bin"))
  /\ [](\A i \in 1..Len(results.downloaded) :
          /\ results.downloaded[i].type \in DOMAIN C13_Table
          /\ EndsWith(results.downloaded[i].localPath,
                      C13_Table[results.downloaded[i].type]))

C13_Witness ==
  /\ pc = "done"
  /\ UrlsOf(images) = <<UrlUserContent>>
  /\ EndsWith(UrlUserContent, ".jpg?s=1")
  /\ files = {"out/issue-7-images/image-1.webp"}
  /\ results.downloaded[1].type = "webp"

\* the relative path the mapping has for the URL, the URL itself when the
\* mapping has none
C14_PathFor(entries, url) ==
  IF \E i \in 1..Len(entries) : entries[i].url = url
  THEN entries[CHOOSE i \in 1..Len(entries) : entries[i].url = url].relativePath
  ELSE url

\* the text in which the URL of every markdown image and of every <img>
\* src has given way to its relative path and nothing else has changed
RECURSIVE C14_Expected(_, _)
C14_Expected(parts, entries) ==
  IF parts = <<>> THEN ""
  ELSE LET p == Head(parts)
       IN p.pre
            \o (IF p.kind \in {"markdown", "html"}
                THEN C14_PathFor(entries, p.url) ELSE p.url)
            \o p.post
            \o C14_Expected(Tail(parts), entries)

\* C14: replaceImageUrls puts the relative path of each mapping entry in
\* the place of every occurrence of the entry's URL in markdown image
\* syntax and in an <img> src attribute, keeps the text around it and
\* changes no other character.
C14_OnlyMappedUrlsRewritten ==
  pc = "replaced" =>
    /\ doc.updatedContent = C14_Expected(doc.parts, doc.imageMap)
    /\ ( /\ doc.text = "![a](https://x/a.png)<img src=\"https://x/a.png\">"
         /\ doc.imageMap = <<MapRecord(UrlA, "dir/image-1.png")>> ) =>
         doc.updatedContent = "![a](dir/image-1.png)<img src=\"dir/image-1.png\">"

\* the references of a text made of parts: those in markdown syntax, then
\* those in <img> tags
C15_Kind(parts, kind) ==
  LET Is(p) == p.kind = kind
      sel == SelectSeq(parts, Is)
  IN [i \in 1..Len(sel) |-> [type |-> kind, url |-> sel[i].url]]

\* C15: extractImagesFromMarkdown returns the markdown matches in document
\* order followed by the <img> matches in document order, so that an <img>
\* tag standing before a markdown image comes after it in the result.
C15_MarkdownThenHtml ==
  pc = "extracted" =>
    /\ doc.images = C15_Kind(doc.parts, "markdown") \o C15_Kind(doc.parts, "html")
    /\ ( /\ Len(doc.parts) = 2
         /\ doc.parts[1].kind = "html" /\ doc.parts[2].kind = "markdown" ) =>
         /\ doc.images[1] = [type |-> "markdown", url |-> doc.parts[2].url]
         /\ doc.images[2] = [type |-> "html", url |-> doc.parts[1].url]

C15_Witness ==
  /\ pc = "extracted"
  /\ doc.text = "<IMG width=1 SRC='https://x/a.png' alt=\"z\"/>![d](https://y/b.gif)"
  /\ doc.images = <<[type |-> "markdown", url |-> UrlB], [type |-> "html", url |-> UrlA]>>

\* the write of the file of the current reference has failed
WriteFailed == pc = "writing" /\ pc' = "loop" /\ files' = files

\* C16: neither an error of the creation of the image directory nor an
\* error of the write of a file makes the harvest throw: the reference is
\* recorded as failed, gets no mapping entry, and the harvest goes on to
\* return after the last reference.
C16_PersistErrorsDoNotAbort ==
  /\ [](pc # "threw")
  /\ [][WriteFailed =>
          /\ results'.failed =
               Append(results.failed, [url |-> CurrentUrl, reason |-> ErrWrite])
          /\ imageMap' = imageMap
          /\ results'.downloaded = results.downloaded]_vars
  /\ [](Returned => imageIndex = Len(images))

\* the run or the call is over
Ended == pc \in {"exited", "returned", "rejected"}

\* the run or the call was asked to download the images into imageDir
DownloadEnabled == run.downloadImages /\ imageDir # ""

\* C17: once a run or a loadIssue call with image downloading enabled is
\* over without a downloaded image, the image directory does not exist
\* unless it existed before; and a run with --no-download-images creates
\* no directory but the output directory.
C17_NoImageDirWithoutDownload ==
  /\ ( /\ Ended /\ DownloadEnabled
       /\ Len(results.downloaded) = 0
       /\ imageDir \notin run.before.dirs ) => imageDir \notin dirs
  /\ (run.entry = "main" /\ ~run.downloadImages) =>
       dirs \subseteq run.before.dirs \cup {OutputDir(run.output)}

\* harvesting is skipped with --no-download-images and when loadIssue is
\* called without both downloadImages and imageDir
HarvestSkipped ==
  \/ run.entry = "main" /\ ~run.downloadImages
  \/ run.entry # "main" /\ ~(run.downloadImages /\ imageDir # "")

\* C18: the images field of the JSON is the report of the harvest, with
\* its three sequences, whenever the harvest ran, also when it found no
\* reference, and null exactly when the harvest was skipped.
C18_JsonImagesIsReport ==
  run.json.written =>
    /\ run.harvested =>
         ~run.json.images.isNull /\ run.json.images.value = results
    /\ run.json.images.isNull <=> HarvestSkipped
    /\ run.harvested <=> ~HarvestSkipped

C18_Witness ==
  /\ pc = "exited"
  /\ run.entry = "main" /\ run.format = "json"
  /\ run.harvested
  /\ images = <<>>
  /\ run.json.written
  /\ run.json.images = [isNull |-> FALSE, value |-> EmptyResults]

\* identifiers of neither form
C19_NeitherForm ==
  {"https://github.com/o/r/pull/7", "github.com/o/r/issues/", "o/r", "o#7", ""}

\* C19: for an identifier of neither form parseIssueUrl returns null, main
\* exits with status 1 and loadIssue throws an error containing 'Invalid
\* issue URL', with no request made and no directory or file created; an
\* identifier of either form is parsed into owner, repository and number.
C19_InvalidIdentifierFailsFirst ==
  (run.entry # "" /\ pc \notin {"main", "loadIssue"}) =>
    IF run.issueInput \in C19_NeitherForm
    THEN /\ parseIssueUrl(run.issueInput) = NotParsed
         /\ ~run.parsed.ok
         /\ run.entry = "main" => pc = "exited" /\ run.exitCode = 1
         /\ run.entry # "main" =>
              pc = "rejected" /\ Includes(error, "Invalid issue URL")
         /\ run.requests = 0 /\ fetchLog = <<>>
         /\ dirs = run.before.dirs /\ files = run.before.files
    ELSE run.parsed = [ok |-> TRUE, owner |-> "o", repo |-> "r", issueNumber |-> 7]

C19_Witness ==
  /\ pc = "rejected"
  /\ run.entry = "loadIssue"
  /\ run.issueInput = "https://github.com/o/r/pull/7"
  /\ error = "Invalid issue URL: https://github.com/o/r/pull/7"

\* the separators of a path
C20_Separators(p) == {i \in 1..Len(p) : SubSeq(p, i, i) = "/"}

\* the name of the file an entry was written to
C20_FileOf(e) ==
  LET seps == C20_Separators(e.localPath)
  IN IF seps = {} THEN e.localPath
     ELSE SubSeq(e.localPath, (CHOOSE i \in seps : \A j \in seps : i >= j) + 1,
                 Len(e.localPath))

\* the base name of the image directory, read off the directories of the model
C20_BaseName ==
  [d \in TargetDirs |->
     CASE d = "out/issue-7-images" -> "issue-7-images"
       [] d = "/tmp/x/issue-7-images" -> "issue-7-images"
       [] d = "out/imgs/" -> "imgs"
       [] d = "." -> "."
       [] d = "/" -> ""
       [] d = ".." -> ".."]

\* C20 as stated: for every mapping entry relativePath is the base name of
\* the image directory, a separator and the name of the written file; it is
\* not absolute and holds no directory above the image directory, whatever
\* the target directory.
C20_RelativePathIsBaseNameSlashFile ==
  \A i \in 1..Len(imageMap) :
    LET e == imageMap[i]
    IN /\ e.localPath \in files
       /\ e.relativePath = C20_BaseName[imageDir] \o "/" \o C20_FileOf(e)
       /\ ~StartsWith(e.relativePath, "/")
       /\ Cardinality(C20_Separators(e.relativePath)) <= 1

\* C20, amended: relativePath is path.join of the base name of the image
\* directory and the name of the written file, which is the base name, a
\* separator and the file name when the base name is neither empty nor '.',
\* and the file name alone when the image directory is '.' or the root; it is
\* not absolute and holds no directory above the image directory.
C20_RelativePathIsJoinedBaseName ==
  \A i \in 1..Len(imageMap) :
    LET e == imageMap[i]
        base == C20_BaseName[imageDir]
    IN /\ e.localPath \in files
       /\ e.relativePath = IF base \in {"", "."} THEN C20_FileOf(e)
                           ELSE base \o "/" \o C20_FileOf(e)
       /\ ~StartsWith(e.relativePath, "/")
       /\ Cardinality(C20_Separators(e.relativePath)) <= 1

C20_Witness ==
  /\ pc = "done"
  /\ imageDir = "/tmp/x/issue-7-images"
  /\ Len(imageMap) = 2
  /\ imageMap[2].localPath = "/tmp/x/issue-7-images/image-2.png"
  /\ imageMap[2].relativePath = "issue-7-images/image-2.png"

C22_Supplied ==
  IF run.flagToken # "" THEN run.flagToken ELSE run.envToken

\* C22: the issue is retrieved with --token if given, else with
\* GITHUB_TOKEN if set, else with the login of the gh command if it is
\* installed and authenticated, else without authentication; with a token
\* supplied the gh login is never what retrieves the issue.
C22_TokenFallbackChain ==
  pc = "issue" =>
    IF C22_Supplied # ""
    THEN run.credential = [via |-> "octokit", auth |-> C22_Supplied]
    ELSE IF run.gh = "authenticated"
    THEN run.credential.auth = GhStoredToken
    ELSE run.credential = [via |-> "octokit", auth |-> ""]

\* the extension of the file written for a format
C23_ExtensionOf == [markdown |-> ".md", json |-> ".json"]

\* a run of main has written the issue
C23_Written == run.entry = "main" /\ pc = "exited" /\ run.exitCode = 0

\* C23: with --output naming a file that ends in .md or .json the issue is
\* written to exactly that path, for either --format; with --output naming
\* a directory the directory exists afterwards and the issue is written to
\* issue-<number>.md, or issue-<number>.json for --format json, inside it.
C23_OutputPathAsNamed ==
  C23_Written =>
    /\ run.output \in {"out/my-issue.md", "issue.json"} =>
         run.outputPath = run.output /\ run.output \in files
    /\ run.output = "out" =>
         /\ "out" \in dirs
         /\ run.outputPath = "out/issue-7" \o C23_ExtensionOf[run.format]
         /\ run.outputPath \in files

\* the fetch has settled
C24_Settled == fetch.outcome \in {"resolved", "rejected"}

\* the step in which the fetch fails with 'Request timeout'
C24_TimesOut ==
  /\ fetch.outcome = "pending"
  /\ fetch'.outcome = "rejected" /\ fetch'.reason = "Request timeout"

\* C24: the step that fails a fetch with 'Request timeout' destroys the
\* request whose timeout fired; and once a fetch has settled, no request
\* it started is in flight or left with its response unread and its
\* timeout armed, the requests of earlier redirect hops included.
C24_NoRequestLeftDangling ==
  /\ [][C24_TimesOut =>
          \/ fetch.req # "none" /\ fetch'.req = "none"
          \/ fetch'.open = fetch.open - 1]_vars
  /\ [](C24_Settled => fetch.req = "none" /\ fetch.open = 0)

\* the orders in which the entries of a mapping can be applied
C25_Orders(entries) ==
  LET n == Len(entries)
      perms == {f \in [1..n -> 1..n] : \A i, j \in 1..n : f[i] = f[j] => i = j}
  IN {[i \in 1..n |-> entries[f[i]]] : f \in perms}

\* C25: applying the entries of the mapping in any order gives the text
\* replaceImageUrls returned, and rewriting that text once more leaves it
\* as it is.
C25_OrderIndependentIdempotent ==
  pc = "replaced" =>
    /\ \A entries \in C25_Orders(doc.imageMap) :
         ReplaceInText(doc.text, entries) = doc.updatedContent
    /\ ReplaceInText(doc.updatedContent, doc.imageMap) = doc.updatedContent

\* what a harvest gives back and leaves on the disk, its messages set aside
C26_Outcome(value) ==
  [imageMap |-> value.imageMap, results |-> value.results,
   files |-> value.files, dirs |-> value.dirs]

C27_Entries ==
  Len(results.downloaded) + Len(results.failed) + Len(results.skipped)

\* C27: when a harvest returns, downloaded + failed + skipped has as many
\* entries as there are extracted references; while it runs, every
\* reference the loop has finished has produced exactly one entry and the
\* reference it is working on none yet.
C27_OneEntryPerReference ==
  /\ Returned => C27_Entries = Len(images)
  /\ pc = "loop" => C27_Entries = imageIndex
  /\ pc \in {"fetching", "writing"} => C27_Entries = imageIndex - 1

C27_Witness ==
  /\ pc = "done"
  /\ Len(images) = 3
  /\ Len(results.downloaded) = 1
  /\ Len(results.failed) = 1
  /\ Len(results.skipped) = 1
  /\ results.skipped[1].reason = "duplicate"
  /\ C27_Entries = 3

\* the loop is about to take up its next reference
C28_AtReference == pc = "loop" /\ imageIndex < Len(images)

C29_Settled == fetch.outcome \in {"resolved", "rejected"}

\* an event of the fetch arrives: the caller has not moved on
C29_FetchEvent == pc' = pc /\ pc \in {"call", "fetching"} /\ fetch' # fetch

\* C29: every fetch eventually settles, and once settled keeps its outcome,
\* body and reason whatever events of its requests arrive later; every
\* harvest eventually returns its mapping and report.
C29_SettlesOnceHarvestReturns ==
  /\ [][C29_Settled /\ C29_FetchEvent =>
          /\ fetch'.outcome = fetch.outcome
          /\ fetch'.buffer = fetch.buffer
          /\ fetch'.reason = fetch.reason]_vars
  /\ (fetch.outcome = "pending") ~> C29_Settled
  /\ (pc = "start") ~> Returned

\* C30: issueToMarkdown returns a text for every issue whose body and
\* comment bodies are each a string or null, under every mapping: it never
\* throws.
C30_RenderingNeverThrows ==
  pc # "issue" => pc = "markdown" /\ doc.threw = ""

=============================================================================
